---------------------------- MODULE Spec2Model ----------------------------
(***************************************************************************)
(* A model of src/index.tsx: the document-extraction viewer.               *)
(*                                                                         *)
(* The module models the module-level state of index.tsx (file, fileData,  *)
(* pageDimensions, extractedData, isThrottled, lastHoveredElementIndex,    *)
(* currentlyEditing), the parts of the DOM the handlers read back (the     *)
(* page surfaces of #preview-container, the .bounding-box overlays, the    *)
(* result list and the JSON view), the asynchronous work in flight (file   *)
(* reads / page renders, extraction requests, the throttle timer) and one  *)
(* action per event handler or continuation.                               *)
(*                                                                         *)
(* Numbers.  JavaScript numbers are modelled as exact rationals <<n, d>>   *)
(* (d > 0, lowest terms); d = 0 encodes the IEEE values +Infinity <<1,0>>, *)
(* -Infinity <<-1,0>> and NaN <<0,0>> that a division by zero produces.    *)
(* Rounding error of binary floating point is not modelled.                *)
(***************************************************************************)
EXTENDS Integers, Sequences, FiniteSets, TLC

\* JavaScript null / undefined / an array hole, where an object is expected.
NULL == [null |-> TRUE]

\* null where a document (a File, the file's data) is expected.
NoFile == "none"

---------------------------------------------------------------------------
(* Number arithmetic *)

Sgn(n) == IF n > 0 THEN 1 ELSE IF n < 0 THEN -1 ELSE 0

Abs(n) == IF n < 0 THEN -n ELSE n

RECURSIVE GCD(_, _)
GCD(a, b) == IF b = 0 THEN a ELSE GCD(b, a % b)

\* The number n/d: lowest terms, positive denominator; anything over 0 is
\* +Infinity, -Infinity or NaN.
Q(n, d) ==
  IF d = 0 THEN <<Sgn(n), 0>>
  ELSE LET g == GCD(Abs(n), Abs(d))
       IN  <<Sgn(d) * (n \div g), Abs(d) \div g>>

NaN == <<0, 0>>

IsNaN(a) == a = NaN

IsFinite(a) == a[2] # 0

QInt(n) == <<n, 1>>

QNeg(a) == <<-a[1], a[2]>>

QAdd(a, b) ==
  IF IsFinite(a) /\ IsFinite(b) THEN Q(a[1] * b[2] + b[1] * a[2], a[2] * b[2])
  ELSE IF IsNaN(a) \/ IsNaN(b) THEN NaN
  ELSE IF IsFinite(a) THEN b
  ELSE IF IsFinite(b) THEN a
  ELSE IF a = b THEN a ELSE NaN

QSub(a, b) == QAdd(a, QNeg(b))

QMul(a, b) == Q(a[1] * b[1], a[2] * b[2])

\* x/0 is an infinity, 0/0 and Infinity/Infinity are NaN, x/Infinity is 0.
QDiv(a, b) ==
  IF IsNaN(a) \/ IsNaN(b) THEN NaN
  ELSE Q(a[1] * b[2] * (IF b[1] < 0 THEN -1 ELSE 1), a[2] * Abs(b[1]))

\* Comparisons; every comparison with NaN is false.
QLt(a, b) ==
  /\ ~IsNaN(a) /\ ~IsNaN(b)
  /\ IF ~IsFinite(a) /\ ~IsFinite(b) THEN a[1] < b[1]
     ELSE a[1] * b[2] < b[1] * a[2]

QLe(a, b) == ~IsNaN(a) /\ ~IsNaN(b) /\ (a = b \/ QLt(a, b))

QGt(a, b) == QLt(b, a)

QGe(a, b) == QLe(b, a)

\* Integer floor of n/d for d > 0.
FloorDiv(n, d) == IF n >= 0 THEN n \div d ELSE -((-n + d - 1) \div d)

\* offsetLeft / offsetTop / offsetWidth / offsetHeight: the layout value of a
\* CSS length rounded to the nearest integer.
Round(a) == FloorDiv(2 * a[1] + a[2], 2 * a[2])

---------------------------------------------------------------------------
(* Bounds of the model and the inputs it draws *)

MaxLoads == 2             \* files selected in a behaviour
MaxRequests == 2          \* extraction requests in flight at a time
MaxGestures == 1          \* drag / resize gestures in a behaviour
MaxSaves == 1             \* edit sessions saved in a behaviour
MaxTime == 10             \* hundredths of a second a timed behaviour lasts
MaxEvents == 4            \* pointer-moves in a timed behaviour

\* A normalized box with coordinates given in tenths of the page.
Box(l, t, r, b) ==
  [left |-> Q(l, 10), top |-> Q(t, 10), right |-> Q(r, 10), bottom |-> Q(b, 10)]

\* The documents a user may select: a two-page PDF (a landscape and a
\* portrait page) and a square image, with their intrinsic page sizes.
Docs == {"pdf", "img"}

DocType(d) == IF d = "pdf" THEN "application/pdf" ELSE "image/png"

DocPages(d) ==
  IF d = "pdf"
  THEN << [width |-> QInt(40), height |-> QInt(20)],
          [width |-> QInt(20), height |-> QInt(40)] >>
  ELSE << [width |-> QInt(20), height |-> QInt(20)] >>

\* What the extraction service may answer.  ListA: two overlapping elements
\* on page 1 (the later one with line boxes) and an element with the first
\* one's coordinates on page 2.  ListB: an element without geometry and a
\* plain field.  ListC: nothing extracted.
ListA ==
  << [type |-> "field", page |-> 1,
      bounding_box |-> Box(1, 1, 6, 6), line_boxes |-> << >>],
     [type |-> "paragraph", page |-> 1,
      bounding_box |-> Box(3, 3, 9, 9),
      line_boxes |-> << Box(3, 3, 9, 5), Box(3, 6, 7, 9) >>],
     [type |-> "figure", page |-> 2,
      bounding_box |-> Box(1, 1, 6, 6), line_boxes |-> << >>] >>

ListB ==
  << [type |-> "field", page |-> 1,
      bounding_box |-> NULL, line_boxes |-> << >>],
     [type |-> "field", page |-> 1,
      bounding_box |-> Box(0, 0, 5, 5), line_boxes |-> << >>] >>

ListC == << >>

Responses == {ListA, ListB, ListC}

\* On-screen geometry of the page surfaces: every surface is width x height,
\* the k-th child of the container sits at (left, top + (k-1)*pitch) of the
\* container's content.  The window can be resized between the two.
Viewports ==
  { [width |-> 40, height |-> 40, left |-> 10, top |-> 10, pitch |-> 50],
    [width |-> 36, height |-> 27, left |-> 4, top |-> 6, pitch |-> 30] }

\* Pointer positions (event.offsetX, event.offsetY) of a pointer-move.
PointerOffsets == { <<8, 14>>, <<16, 18>>, <<36, 12>>, <<20, 4>> }

\* Pointer displacements (clientX - startX, clientY - startY) of a gesture.
PointerDeltas == { <<6, -4>>, <<-30, 10>> }

Handles == {"nw", "n", "ne", "e", "se", "s", "sw", "w"}

\* The two handles that move every edge between them.
CornerHandles == {"nw", "se"}

---------------------------------------------------------------------------
(* State *)

VARIABLES
  file,                     \* the selected document, or NoFile
  fileData,                 \* the document whose bytes were read, or NoFile
  pageDimensions,           \* sequence of [width, height]
  extractedData,            \* sequence of elements (NULL: an array hole)
  isThrottled,
  lastHoveredElementIndex,  \* 0-based, -1: none
  currentlyEditing,         \* [index, originalElement], or NULL
  controlsEnabled,          \* extractButton / ocrSlider not disabled
  previewPages,             \* page surfaces of #preview-container, in order
  overlays,                 \* the .bounding-box elements, in order
  markdownItems,            \* the .result-item entries of the result list
  jsonItems,                \* indices of the .json-interactive-element divs
  loadingSpinner,           \* the busy indicator is visible
  exportDisabled,
  feedbackHidden,
  viewport,                 \* current on-screen geometry
  renders,                  \* renderPreview calls in progress
  requests,                 \* extraction requests in flight
  timers,                   \* pending throttle-release timers
  gesture,                  \* the drag / resize in progress, or NULL
  count,                    \* gestures started, saves made, files selected
  sessionBase,              \* history: the list when the session was entered
  last,                     \* history: what the last handler did
  geo,                      \* inputs and results of the geometry functions
  clock                     \* time and the pointer-moves seen, or NoClock

vars ==
  << file, fileData, pageDimensions, extractedData, isThrottled,
     lastHoveredElementIndex, currentlyEditing, controlsEnabled,
     previewPages, overlays, markdownItems, jsonItems, loadingSpinner,
     exportDisabled, feedbackHidden, viewport, renders, requests, timers,
     gesture, count, sessionBase, last, geo, clock >>

\* The state the synchronous helpers read and write, as one record.
Cur ==
  [ file |-> file, fileData |-> fileData, pageDimensions |-> pageDimensions,
    extractedData |-> extractedData, isThrottled |-> isThrottled,
    lastHoveredElementIndex |-> lastHoveredElementIndex,
    currentlyEditing |-> currentlyEditing,
    controlsEnabled |-> controlsEnabled, previewPages |-> previewPages,
    overlays |-> overlays, markdownItems |-> markdownItems,
    jsonItems |-> jsonItems, loadingSpinner |-> loadingSpinner,
    exportDisabled |-> exportDisabled, feedbackHidden |-> feedbackHidden,
    viewport |-> viewport,
    thrown |-> FALSE ]        \* an exception has abandoned the handler

Commit(s) ==
  /\ file' = s.file
  /\ fileData' = s.fileData
  /\ pageDimensions' = s.pageDimensions
  /\ extractedData' = s.extractedData
  /\ isThrottled' = s.isThrottled
  /\ lastHoveredElementIndex' = s.lastHoveredElementIndex
  /\ currentlyEditing' = s.currentlyEditing
  /\ controlsEnabled' = s.controlsEnabled
  /\ previewPages' = s.previewPages
  /\ overlays' = s.overlays
  /\ markdownItems' = s.markdownItems
  /\ jsonItems' = s.jsonItems
  /\ loadingSpinner' = s.loadingSpinner
  /\ exportDisabled' = s.exportDisabled
  /\ feedbackHidden' = s.feedbackHidden
  /\ viewport' = s.viewport

\* list[i] with a 0-based index; NULL (undefined) outside the array.
At(list, i) == IF i + 1 \in DOMAIN list THEN list[i + 1] ELSE NULL

\* list[i] = v with a 0-based index: an index past the end extends the
\* array, leaving holes.
SetAt(list, i, v) ==
  [k \in 1..(IF i + 1 > Len(list) THEN i + 1 ELSE Len(list)) |->
     IF k = i + 1 THEN v ELSE IF k \in DOMAIN list THEN list[k] ELSE NULL]

---------------------------------------------------------------------------
(* Coordinate conversion utilities *)

\* previewElement.getBoundingClientRect(), with the element's position given
\* relative to the container's content origin (elementRect.top -
\* containerRect.top + scrollTop does not depend on the scroll position).
BoundingClientRect(s, k) ==
  [ width |-> QInt(s.viewport.width),
    height |-> QInt(s.viewport.height),
    relativeTop |-> QInt(s.viewport.top + (k - 1) * s.viewport.pitch),
    relativeLeft |-> QInt(s.viewport.left) ]

\* document.querySelector("#preview-container [data-page-number='n']"): the
\* first page surface with that page number, 0 when there is none.
QuerySelector(s, pageNum) ==
  LET hits == {k \in DOMAIN s.previewPages :
                 s.previewPages[k].pageNumber = pageNum}
  IN  IF hits = {} THEN 0 ELSE CHOOSE k \in hits : \A j \in hits : k <= j

\* The coordinate system once the aspect ratios have been compared.  wide:
\* the display is wider than the content (pillarbox), else letterbox.
CoordinateSystemOf(pageDim, rect, wide) ==
  LET Fitted(scale) ==
        [ page |-> pageDim,
          display |-> [width |-> rect.width, height |-> rect.height],
          coords |->
            [ scale |-> scale,
              offsetX |->
                IF wide
                THEN QDiv(QSub(rect.width, QMul(pageDim.width, scale)),
                          QInt(2))
                ELSE QInt(0),
              offsetY |->
                IF wide THEN QInt(0)
                ELSE QDiv(QSub(rect.height, QMul(pageDim.height, scale)),
                          QInt(2)) ],
          relativeTop |-> rect.relativeTop,
          relativeLeft |-> rect.relativeLeft ]
  IN  Fitted(IF wide THEN QDiv(rect.height, pageDim.height)
             ELSE QDiv(rect.width, pageDim.width))

\* A faulty variant of GetCoordinateSystem: the aspect test is inverted.
GetCoordinateSystemSwapped(s, previewElement, pageNum) ==
  LET Measured(pageDim, rect) ==
        IF pageDim = NULL THEN NULL
        ELSE CoordinateSystemOf(pageDim, rect,
                                ~QGt(QDiv(rect.width, rect.height),
                                     QDiv(pageDim.width, pageDim.height)))
  IN  Measured(At(s.pageDimensions, pageNum - 1),
               BoundingClientRect(s, previewElement))

\* getCoordinateSystem(previewElement, pageNum): NULL without a page record.
GetCoordinateSystem(s, previewElement, pageNum) ==
  LET Measured(pageDim, rect) ==
        IF pageDim = NULL THEN NULL
        ELSE CoordinateSystemOf(pageDim, rect,
                                QGt(QDiv(rect.width, rect.height),
                                    QDiv(pageDim.width, pageDim.height)))
  IN  Measured(At(s.pageDimensions, pageNum - 1),
               BoundingClientRect(s, previewElement))

\* normalizedToPixels(box, pageNum, coordSystem).pixels
NormalizedToPixels(box, coordSystem) ==
  LET cw == coordSystem.page.width
      ch == coordSystem.page.height
      c == coordSystem.coords
  IN  [ left |-> QAdd(QAdd(coordSystem.relativeLeft,
                           QMul(QMul(box.left, cw), c.scale)), c.offsetX),
        top |-> QAdd(QAdd(coordSystem.relativeTop,
                          QMul(QMul(box.top, ch), c.scale)), c.offsetY),
        width |-> QMul(QMul(QSub(box.right, box.left), cw), c.scale),
        height |-> QMul(QMul(QSub(box.bottom, box.top), ch), c.scale) ]

\* A faulty variant of PixelsToNormalizedIn: the letterbox / pillarbox offset
\* is not subtracted.
PixelsToNormalizedNoOffset(pixelBounds, coordSystem) ==
  LET cw == coordSystem.page.width
      ch == coordSystem.page.height
      c == coordSystem.coords
      absoluteLeft == QSub(pixelBounds.left, coordSystem.relativeLeft)
      absoluteTop == QSub(pixelBounds.top, coordSystem.relativeTop)
  IN  [ left |-> QDiv(absoluteLeft, QMul(cw, c.scale)),
        top |-> QDiv(absoluteTop, QMul(ch, c.scale)),
        right |-> QDiv(QAdd(absoluteLeft, pixelBounds.width),
                       QMul(cw, c.scale)),
        bottom |-> QDiv(QAdd(absoluteTop, pixelBounds.height),
                        QMul(ch, c.scale)) ]

\* The body of pixelsToNormalized once the coordinate system is resolved.
PixelsToNormalizedIn(pixelBounds, coordSystem) ==
  LET cw == coordSystem.page.width
      ch == coordSystem.page.height
      c == coordSystem.coords
      absoluteLeft == QSub(pixelBounds.left, coordSystem.relativeLeft)
      absoluteTop == QSub(pixelBounds.top, coordSystem.relativeTop)
  IN  [ left |-> QDiv(QSub(absoluteLeft, c.offsetX), QMul(cw, c.scale)),
        top |-> QDiv(QSub(absoluteTop, c.offsetY), QMul(ch, c.scale)),
        right |-> QDiv(QSub(QAdd(absoluteLeft, pixelBounds.width), c.offsetX),
                       QMul(cw, c.scale)),
        bottom |-> QDiv(QSub(QAdd(absoluteTop, pixelBounds.height), c.offsetY),
                        QMul(ch, c.scale)) ]

\* Thrown: the handler that made the call is abandoned where it stands.
THROWN == [thrown |-> TRUE]

\* pixelsToNormalized(pixelBounds, pageNum): null without a page surface;
\* destructuring the null coordinate system of a page without a page record
\* throws a TypeError.
PixelsToNormalized(s, pixelBounds, pageNum) ==
  LET Converted(coordSystem) ==
        IF coordSystem = NULL THEN THROWN
        ELSE PixelsToNormalizedIn(pixelBounds, coordSystem)
      Found(previewElement) ==
        IF previewElement = 0 THEN NULL
        ELSE Converted(GetCoordinateSystem(s, previewElement, pageNum))
  IN  Found(QuerySelector(s, pageNum))

---------------------------------------------------------------------------
(* UI functions *)

\* clearBoundingBoxes(): every .bounding-box element is removed.
ClearBoundingBoxes(s) == [s EXCEPT !.overlays = << >>]

\* clearResults()
ClearResults(s) ==
  [s EXCEPT !.markdownItems = << >>, !.jsonItems = {},
            !.extractedData = << >>, !.exportDisabled = TRUE,
            !.feedbackHidden = TRUE]

\* clearPreview(): emptying the container removes the page surfaces and the
\* overlays, which are its children.
ClearPreview(s) ==
  ClearResults(ClearBoundingBoxes(
    [s EXCEPT !.previewPages = << >>, !.overlays = << >>,
              !.fileData = NoFile, !.pageDimensions = << >>]))

\* A CSS width or height: a negative or non-finite length is not a valid
\* value, and the declaration keeps what it held.
CssSize(old, new) ==
  IF IsFinite(new) /\ QGe(new, QInt(0)) THEN new ELSE old

\* A CSS left or top: any finite length is valid.
CssPos(old, new) == IF IsFinite(new) THEN new ELSE old

\* The boxes of an element that are drawn and hit-tested: its line_boxes
\* when it has any, else its bounding_box, else none.
BoxesOf(element) ==
  IF Len(element.line_boxes) > 0 THEN element.line_boxes
  ELSE IF element.bounding_box # NULL THEN << element.bounding_box >>
  ELSE << >>

\* The overlay <div> of one box.  isAnimated only chooses a style class,
\* which nothing reads back.
OverlayOf(box, boxIndex, coordSystem, isAnimated, isEditable) ==
  LET Styled(px) ==
        [ left |-> CssPos(QInt(0), px.left), top |-> CssPos(QInt(0), px.top),
          width |-> CssSize(QInt(0), px.width),
          height |-> CssSize(QInt(0), px.height),
          editable |-> isEditable, boxIndex |-> boxIndex ]
  IN  Styled(NormalizedToPixels(box, coordSystem))

\* drawBoundingBox(element, isAnimated, isEditable)
DrawBoundingBox(s, element, isAnimated, isEditable) ==
  LET \* the forEach over boxesToDraw: drawn holds the indices of the boxes
      \* that are not null, and the n-th overlay is that of the n-th of them
      Each(s1, boxesToDraw, coordSystem, drawn) ==
        LET Overlay(k) == OverlayOf(boxesToDraw[k], k - 1, coordSystem,
                                    isAnimated, isEditable)
        IN  [s1 EXCEPT !.overlays = s1.overlays \o
               [n \in 1..Cardinality(drawn) |->
                  Overlay(CHOOSE k \in drawn :
                            Cardinality({j \in drawn : j < k}) = n - 1)]]
      Placed(s1, boxesToDraw, coordSystem) ==
        IF coordSystem = NULL THEN s1
        ELSE Each(s1, boxesToDraw, coordSystem,
                  {k \in DOMAIN boxesToDraw : boxesToDraw[k] # NULL})
      Located(s1, boxesToDraw, previewElement) ==
        IF previewElement = 0 THEN s1
        ELSE Placed(s1, boxesToDraw,
                    GetCoordinateSystem(s1, previewElement, element.page))
      Drawn(s1, boxesToDraw) ==
        IF Len(boxesToDraw) = 0 \/ element.page = 0 THEN s1
        ELSE Located(s1, boxesToDraw, QuerySelector(s1, element.page))
  IN  Drawn(IF isEditable THEN s ELSE ClearBoundingBoxes(s), BoxesOf(element))

\* displayMarkdownResults(elements): one entry per element; its header's
\* click listener keeps the element object it was built for (alias: that
\* object is still the one stored in extractedData at the entry's index).
DisplayMarkdownResults(s, elements) ==
  [s EXCEPT !.markdownItems =
     [k \in 1..Len(elements) |->
        [element |-> elements[k], alias |-> TRUE, buttons |-> "edit"]]]

\* displayJsonResults({extracted_elements: elements}): forEach skips holes.
DisplayJsonResults(s, elements) ==
  [s EXCEPT !.jsonItems = {i \in 0..(Len(elements) - 1) :
                             elements[i + 1] # NULL}]

\* updateActionButtons(index, isEditing)
UpdateActionButtons(s, index, isEditing) ==
  IF index + 1 \in DOMAIN s.markdownItems
  THEN [s EXCEPT !.markdownItems[index + 1].buttons =
                   IF isEditing THEN "save" ELSE "edit"]
  ELSE s

---------------------------------------------------------------------------
(* Bounding box editor functions *)

\* JSON.parse(JSON.stringify(x)) of a number: NaN and the infinities are
\* written as null, which later arithmetic reads as 0.
JsonNumber(a) == IF IsFinite(a) THEN a ELSE QInt(0)

JsonBox(box) ==
  IF box = NULL THEN NULL
  ELSE [ left |-> JsonNumber(box.left), top |-> JsonNumber(box.top),
         right |-> JsonNumber(box.right), bottom |-> JsonNumber(box.bottom) ]

\* JSON.parse(JSON.stringify(element)): the deep copy kept for cancellation.
DeepCopy(element) ==
  [ type |-> element.type, page |-> element.page,
    bounding_box |-> JsonBox(element.bounding_box),
    line_boxes |-> [k \in DOMAIN element.line_boxes |->
                      JsonBox(element.line_boxes[k])] ]

\* A property of the object stored at extractedData[index] is assigned: the
\* result-list entry built for that object sees the change.
MutateElement(s, index, element) ==
  LET s1 == [s EXCEPT !.extractedData = SetAt(s.extractedData, index, element)]
  IN  IF index + 1 \in DOMAIN s.markdownItems
         /\ s.markdownItems[index + 1].alias
      THEN [s1 EXCEPT !.markdownItems[index + 1].element = element]
      ELSE s1

\* extractedData[index] = element: another object takes the place.
ReplaceElement(s, index, element) ==
  LET s1 == [s EXCEPT !.extractedData = SetAt(s.extractedData, index, element)]
  IN  IF index + 1 \in DOMAIN s.markdownItems
      THEN [s1 EXCEPT !.markdownItems[index + 1].alias = FALSE]
      ELSE s1

\* boxDiv.offsetLeft, offsetTop, offsetWidth, offsetHeight
OffsetBounds(boxDiv) ==
  [ left |-> QInt(Round(boxDiv.left)), top |-> QInt(Round(boxDiv.top)),
    width |-> QInt(Round(boxDiv.width)),
    height |-> QInt(Round(boxDiv.height)) ]

\* A faulty variant of StoreBox: the bounding_box is written whenever the
\* element has one.
StoreBoxBounding(element, boxIndex, newNormalizedBox) ==
  IF element.bounding_box # NULL
  THEN [element EXCEPT !.bounding_box = newNormalizedBox]
  ELSE IF Len(element.line_boxes) > 0
  THEN [element EXCEPT
          !.line_boxes = SetAt(element.line_boxes, boxIndex, newNormalizedBox)]
  ELSE element

\* The element with the new box written where the branch at the end of the
\* forEach callback of updateElementFromEditableBoxes writes it.
StoreBox(element, boxIndex, newNormalizedBox) ==
  IF Len(element.line_boxes) > 0
  THEN [element EXCEPT
          !.line_boxes = SetAt(element.line_boxes, boxIndex, newNormalizedBox)]
  ELSE IF element.bounding_box # NULL
  THEN [element EXCEPT !.bounding_box = newNormalizedBox]
  ELSE element

\* updateElementFromEditableBoxes(elementIndex), from the k-th overlay on.
RECURSIVE UpdateFromBox(_, _, _)
UpdateFromBox(s, elementIndex, k) ==
  IF k > Len(s.overlays) THEN s
  ELSE IF ~s.overlays[k].editable THEN UpdateFromBox(s, elementIndex, k + 1)
  ELSE
    LET Stored(element, boxDiv, newNormalizedBox) ==
          IF newNormalizedBox = THROWN THEN [s EXCEPT !.thrown = TRUE]
          ELSE UpdateFromBox(
                 MutateElement(s, elementIndex,
                               StoreBox(element, boxDiv.boxIndex,
                                        newNormalizedBox)),
                 elementIndex, k + 1)
        Callback(element, boxDiv) ==
          Stored(element, boxDiv,
                 PixelsToNormalized(s, OffsetBounds(boxDiv), element.page))
    IN  Callback(At(s.extractedData, elementIndex), s.overlays[k])

UpdateElementFromEditableBoxes(s, elementIndex) ==
  IF At(s.extractedData, elementIndex) = NULL THEN s
  ELSE UpdateFromBox(s, elementIndex, 1)

\* A faulty variant of ExitEditMode: cancelling stores the overlays as
\* saving does.
ExitEditModeAlwaysSave(s, shouldSave) ==
  IF s.currentlyEditing = NULL THEN s
  ELSE
    LET Refreshed(s3) == DisplayJsonResults(s3, s3.extractedData)
        Left(s1, index) ==
          IF s1.thrown THEN s1
          ELSE Refreshed(ClearBoundingBoxes(UpdateActionButtons(
                 [s1 EXCEPT !.currentlyEditing = NULL], index, FALSE)))
    IN  Left(UpdateElementFromEditableBoxes(s, s.currentlyEditing.index),
             s.currentlyEditing.index)

\* exitEditMode(shouldSave)
ExitEditMode(s, shouldSave) ==
  IF s.currentlyEditing = NULL THEN s
  ELSE
    LET Refreshed(s3) == DisplayJsonResults(s3, s3.extractedData)
        \* s1: the state after the save or the restoration
        Left(s1, index) ==
          IF s1.thrown THEN s1
          ELSE Refreshed(ClearBoundingBoxes(UpdateActionButtons(
                 [s1 EXCEPT !.currentlyEditing = NULL], index, FALSE)))
        Exit(index, originalElement) ==
          Left(IF shouldSave THEN UpdateElementFromEditableBoxes(s, index)
               ELSE ReplaceElement(s, index, originalElement), index)
    IN  Exit(s.currentlyEditing.index, s.currentlyEditing.originalElement)

\* A faulty variant of EnterEditMode: a session open on another element is
\* not cancelled before the new one is created.
EnterEditModeKeepsSession(s, index) ==
  IF s.currentlyEditing # NULL /\ s.currentlyEditing.index = index THEN s
  ELSE
    LET Edit(s1, element) ==
          IF element = NULL THEN s1
          ELSE UpdateActionButtons(
                 DrawBoundingBox(
                   ClearBoundingBoxes(
                     [s1 EXCEPT !.currentlyEditing =
                        [index |-> index,
                         originalElement |-> DeepCopy(element)]]),
                   element, FALSE, TRUE),
                 index, TRUE)
    IN  Edit(s, At(s.extractedData, index))

\* A faulty variant of EnterEditMode: the session is cancelled and created
\* anew when the index is the one being edited.
EnterEditModeAnew(s, index) ==
  LET Edit(s1, element) ==
        IF element = NULL THEN s1
        ELSE UpdateActionButtons(
               DrawBoundingBox(
                 ClearBoundingBoxes(
                   [s1 EXCEPT !.currentlyEditing =
                      [index |-> index,
                       originalElement |-> DeepCopy(element)]]),
                 element, FALSE, TRUE),
               index, TRUE)
      Enter(s1) == Edit(s1, At(s1.extractedData, index))
  IN  Enter(ExitEditMode(s, FALSE))

\* enterEditMode(index)
EnterEditMode(s, index) ==
  IF s.currentlyEditing # NULL /\ s.currentlyEditing.index = index THEN s
  ELSE
    LET \* s1: the state once an open session on another element is cancelled
        Edit(s1, element) ==
          IF element = NULL THEN s1
          ELSE UpdateActionButtons(
                 DrawBoundingBox(
                   ClearBoundingBoxes(
                     [s1 EXCEPT !.currentlyEditing =
                        [index |-> index,
                         originalElement |-> DeepCopy(element)]]),
                   element, FALSE, TRUE),
                 index, TRUE)
        Enter(s1) == Edit(s1, At(s1.extractedData, index))
    IN  Enter(ExitEditMode(s, FALSE))

---------------------------------------------------------------------------
(* Hover over the preview *)

\* The box test of handlePreviewMouseMove.
Inside(box, normalizedX, normalizedY) ==
  /\ box # NULL
  /\ QGe(normalizedX, box.left) /\ QLe(normalizedX, box.right)
  /\ QGe(normalizedY, box.top) /\ QLe(normalizedY, box.bottom)

\* A faulty variant of Matches: an element without boxes matches every point
\* of its page.
MatchesBoxless(element, pageNum, normalizedX, normalizedY) ==
  /\ element.page = pageNum
  /\ \/ BoxesOf(element) = << >>
     \/ \E k \in DOMAIN BoxesOf(element) :
          Inside(BoxesOf(element)[k], normalizedX, normalizedY)

\* A faulty variant of Matches: the bounding_box is tested as well when the
\* element has line boxes.
MatchesBoundingBox(element, pageNum, normalizedX, normalizedY) ==
  /\ element.page = pageNum
  /\ \/ \E k \in DOMAIN BoxesOf(element) :
          Inside(BoxesOf(element)[k], normalizedX, normalizedY)
     \/ Inside(element.bounding_box, normalizedX, normalizedY)

\* Whether the backward scan of handlePreviewMouseMove stops at element.
Matches(element, pageNum, normalizedX, normalizedY) ==
  /\ element.page = pageNum
  /\ \E k \in DOMAIN BoxesOf(element) :
       Inside(BoxesOf(element)[k], normalizedX, normalizedY)

\* A faulty variant of FoundElementIndex: the scan runs forward.
FoundElementIndexForward(list, pageNum, normalizedX, normalizedY) ==
  LET hits == {i \in 0..(Len(list) - 1) :
                 /\ list[i + 1] # NULL
                 /\ Matches(list[i + 1], pageNum, normalizedX, normalizedY)}
  IN  IF hits = {} THEN -1 ELSE CHOOSE i \in hits : \A j \in hits : i <= j

\* A faulty variant of FoundElementIndex: the page of an element is not
\* compared with the page under the pointer.
FoundElementIndexAnyPage(list, pageNum, normalizedX, normalizedY) ==
  LET hits == {i \in 0..(Len(list) - 1) :
                 /\ list[i + 1] # NULL
                 /\ Matches(list[i + 1], list[i + 1].page,
                            normalizedX, normalizedY)}
  IN  IF hits = {} THEN -1 ELSE CHOOSE i \in hits : \A j \in hits : i >= j

\* Reading .page of an array hole throws a TypeError.
ScanThrown == -2

\* foundElementIndex after the loop of handlePreviewMouseMove, which runs i
\* from extractedData.length - 1 down to 0 and stops at the first match.
RECURSIVE ScanFrom(_, _, _, _, _)
ScanFrom(list, i, pageNum, normalizedX, normalizedY) ==
  IF i < 0 THEN -1
  ELSE IF list[i + 1] = NULL THEN ScanThrown
  ELSE IF Matches(list[i + 1], pageNum, normalizedX, normalizedY) THEN i
  ELSE ScanFrom(list, i - 1, pageNum, normalizedX, normalizedY)

FoundElementIndex(list, pageNum, normalizedX, normalizedY) ==
  ScanFrom(list, Len(list) - 1, pageNum, normalizedX, normalizedY)

\* The pointer of a pointer-move over the page surface target, in normalized
\* page coordinates.
NormalizedPointer(s, target, offset) ==
  LET Normalized(cs) ==
        [ x |-> QDiv(QSub(QInt(offset[1]), cs.coords.offsetX),
                     QMul(cs.page.width, cs.coords.scale)),
          y |-> QDiv(QSub(QInt(offset[2]), cs.coords.offsetY),
                     QMul(cs.page.height, cs.coords.scale)) ]
  IN  Normalized(GetCoordinateSystem(s, target,
                                     s.previewPages[target].pageNumber))

\* handlePreviewMouseMove(event) past the throttle guard.  target: the page
\* surface under the pointer, 0 when the pointer is over anything else.
HoverAt(s, target, offset) ==
  IF target = 0
  THEN IF s.lastHoveredElementIndex # -1
       THEN [ClearBoundingBoxes(s) EXCEPT !.lastHoveredElementIndex = -1]
       ELSE s
  ELSE
    LET pageNum == s.previewPages[target].pageNumber
        Hovered(foundElementIndex) ==
          IF foundElementIndex = ScanThrown THEN s
          ELSE IF foundElementIndex # s.lastHoveredElementIndex
          THEN [(IF foundElementIndex # -1
                 THEN DrawBoundingBox(ClearBoundingBoxes(s),
                                      At(s.extractedData, foundElementIndex),
                                      FALSE, FALSE)
                 ELSE ClearBoundingBoxes(s))
                  EXCEPT !.lastHoveredElementIndex = foundElementIndex]
          ELSE s
        Scanned(p) ==
          Hovered(FoundElementIndex(s.extractedData, pageNum, p.x, p.y))
    IN  IF At(s.pageDimensions, pageNum - 1) = NULL THEN s
        ELSE Scanned(NormalizedPointer(s, target, offset))

\* A faulty variant of HoverSuppressed: the busy flag is not tested.
HoverSuppressedUnthrottled(s) ==
  Len(s.extractedData) = 0 \/ s.currentlyEditing # NULL

\* Whether handlePreviewMouseMove returns at its first test.
HoverSuppressed(s) ==
  s.isThrottled \/ Len(s.extractedData) = 0 \/ s.currentlyEditing # NULL

---------------------------------------------------------------------------
(* Events *)

NoSession == [none |-> TRUE]

\* The new value of the history variable sessionBase when a handler leaves
\* the state s.  index, list: the edited index and the list as they were
\* when the edit session was created; clean: the list and the preview have
\* not been replaced or cleared under the session since; moved: the kind of
\* the last gesture that changed an overlay of the session; open: FALSE in
\* the state the handler that destroyed the session leaves; prior: in the
\* state the handler that created the session leaves, the session it found
\* open (its index and snapshot, the list it found, and that session's
\* moved, clean and list at entry), NoSession when it found none.
BaseAfter(s, interferes) ==
  IF s.currentlyEditing = NULL
  THEN IF currentlyEditing # NULL /\ sessionBase # NoSession
       THEN [sessionBase EXCEPT !.open = FALSE,
                                !.clean = @ /\ ~interferes,
                                !.prior = NoSession]
       ELSE NoSession
  ELSE IF s.currentlyEditing # currentlyEditing
  THEN [index |-> s.currentlyEditing.index, list |-> s.extractedData,
        clean |-> TRUE, moved |-> "no", open |-> TRUE,
        prior |-> IF currentlyEditing = NULL \/ sessionBase = NoSession
                  THEN NoSession
                  ELSE [index |-> currentlyEditing.index,
                        snapshot |-> currentlyEditing.originalElement,
                        list |-> extractedData,
                        moved |-> sessionBase.moved,
                        clean |-> sessionBase.clean,
                        entered |-> sessionBase.list]]
  ELSE [sessionBase EXCEPT !.clean = @ /\ ~interferes,
                           !.prior = NoSession]

\* What every handler leaves besides the program's state s: the history
\* variables.  tag names what the handler did when a property has to tell:
\* "cancel", "save", "reenter" (the edit button of the element being
\* edited), "click" (a JSON element or a result-list header, outside edit
\* mode), "extract", "select", "response", "failure"; "none" otherwise.
Frame(s, interferes, tag) ==
  /\ Commit(s)
  /\ sessionBase' = BaseAfter(s, interferes)
  /\ last' = tag
  /\ geo' = geo
  /\ clock' = clock

\* A handler run by a user event: s is the state it leaves.  The pointer
\* does nothing else while it holds a box or a handle.
UserStepAs(s, interferes, tag) ==
  /\ gesture = NULL
  /\ Frame(s, interferes, tag)
  /\ UNCHANGED <<requests, timers, gesture, count>>

UserStep(s, interferes) == UserStepAs(s, interferes, "none")

\* A faulty variant of RunExtractionSync: the results are cleared before the
\* edit session is cancelled.
RunExtractionClearFirst(s) ==
  IF s.file = NoFile \/ s.fileData = NoFile THEN s
  ELSE
    LET s1 == ClearBoundingBoxes(ClearResults(s))
        s2 == IF s1.currentlyEditing # NULL THEN ExitEditMode(s1, FALSE)
              ELSE s1
    IN  [s2 EXCEPT !.loadingSpinner = TRUE]

\* runExtraction() up to its await: s is left as it is unless a document
\* has been selected and read.
RunExtractionSync(s) ==
  IF s.file = NoFile \/ s.fileData = NoFile THEN s
  ELSE
    LET s1 == IF s.currentlyEditing # NULL THEN ExitEditMode(s, FALSE) ELSE s
        s2 == [s1 EXCEPT !.loadingSpinner = TRUE]
    IN  ClearBoundingBoxes(ClearResults(s2))

RunExtraction ==
  /\ gesture = NULL
  /\ Len(requests) < MaxRequests
  /\ LET s == RunExtractionSync(Cur)
         issued == file # NoFile /\ fileData # NoFile
     IN  /\ Frame(s, FALSE, IF issued THEN "extract" ELSE "none")
         /\ requests' = IF issued
                        THEN Append(requests, [doc |-> fileData,
                                               overtaken |-> FALSE])
                        ELSE requests
  /\ UNCHANGED <<renders, timers, gesture, count>>

\* extractButton 'click'
ExtractClick == controlsEnabled /\ RunExtraction

\* ocrSlider 'change'
OcrSliderChange == controlsEnabled /\ RunExtraction

Remove(seq, k) == [j \in 1..(Len(seq) - 1) |-> IF j < k THEN seq[j] ELSE seq[j + 1]]

\* The requests in flight, in the order of issue, once request k has
\* completed; overtaken (history) marks those issued before it.
Completed(seq, k) ==
  [j \in 1..(Len(seq) - 1) |->
     IF j < k THEN [seq[j] EXCEPT !.overtaken = TRUE] ELSE seq[j + 1]]

\* The state after the try block of runExtraction when the request's answer
\* holds the list elements.
ExtractionSucceeded(s, elements) ==
  LET s1 == [s EXCEPT !.extractedData = elements]
      image == s.file # NoFile /\ DocType(s.file) # "application/pdf"
  IN  IF Len(elements) = 0 /\ image
      THEN [s1 EXCEPT !.markdownItems = << >>, !.jsonItems = {},
                      !.exportDisabled = TRUE, !.feedbackHidden = TRUE]
      ELSE LET s2 == DisplayJsonResults(
                       DisplayMarkdownResults(s1, elements), elements)
           IN  [s2 EXCEPT !.exportDisabled = (Len(elements) = 0),
                          !.feedbackHidden =
                            IF Len(elements) > 0 THEN FALSE
                            ELSE s2.feedbackHidden]

\* The state after the catch block of runExtraction.
ExtractionFailed(s) ==
  [s EXCEPT !.markdownItems = << >>, !.extractedData = << >>,
            !.exportDisabled = TRUE, !.feedbackHidden = TRUE]

\* An asynchronous continuation: it runs whatever the pointer is doing; a
\* gesture whose overlay it removes goes on against the detached element.
AsyncStepAs(s, interferes, tag) ==
  /\ Frame(s, interferes, tag)
  /\ gesture' = IF gesture # NULL /\ s.overlays # overlays
                THEN [gesture EXCEPT !.box = 0] ELSE gesture
  /\ UNCHANGED <<timers, count>>

AsyncStep(s, interferes) == AsyncStepAs(s, interferes, "none")

\* The answer to request k arrives: generateContent resolves and the rest of
\* the try block runs, then the finally block.
ResponseAnswered(k, outstanding) ==
  /\ k \in DOMAIN requests
  /\ \E elements \in Responses :
       AsyncStepAs([ExtractionSucceeded(Cur, elements)
                      EXCEPT !.loadingSpinner = FALSE], TRUE, "response")
  /\ requests' = outstanding
  /\ UNCHANGED renders

\* The same, the order of issue of the requests forgotten.
ResponseArrives(k) == ResponseAnswered(k, Remove(requests, k))

\* The same, the requests issued before request k marked.
ResponseOvertakes(k) == ResponseAnswered(k, Completed(requests, k))

\* Request k fails (generateContent rejects or the answer is not JSON).
ResponseFails(k) ==
  /\ k \in DOMAIN requests
  /\ AsyncStepAs([ExtractionFailed(Cur) EXCEPT !.loadingSpinner = FALSE],
                 TRUE, "failure")
  /\ requests' = Remove(requests, k)
  /\ UNCHANGED renders

---------------------------------------------------------------------------
(* File selection and the preview *)

\* fileUpload 'change' with a file of a supported type: renderPreview(file)
\* clears the preview and starts reading the file.
SelectFile(d) ==
  /\ d \in Docs
  /\ count.loads < MaxLoads
  /\ gesture = NULL
  /\ Frame(ClearPreview([Cur EXCEPT !.file = d, !.controlsEnabled = TRUE]),
           TRUE, "select")
  /\ count' = [count EXCEPT !.loads = count.loads + 1]
  /\ UNCHANGED <<requests, timers, gesture>>
  /\ renders' = Append(renders, [doc |-> d, stage |-> "read", page |-> 0])

\* fileUpload 'change' with a file of an unsupported type.
SelectUnsupported ==
  /\ UserStep([Cur EXCEPT !.file = NoFile, !.controlsEnabled = FALSE], FALSE)
  /\ UNCHANGED renders

\* fileUpload 'change' with no file (the dialog was dismissed).
SelectNothing ==
  /\ UserStep(ClearPreview([Cur EXCEPT !.controlsEnabled = FALSE]), TRUE)
  /\ UNCHANGED renders

\* reader.onload of render k: the file's data is kept; a PDF goes on to its
\* first page, an image to loading the <img>.
ReaderLoaded(k) ==
  /\ k \in DOMAIN renders
  /\ renders[k].stage = "read"
  /\ AsyncStep([Cur EXCEPT !.fileData = renders[k].doc], FALSE)
  /\ renders' = [renders EXCEPT ![k] =
                   IF DocType(renders[k].doc) = "application/pdf"
                   THEN [doc |-> renders[k].doc, stage |-> "page", page |-> 1]
                   ELSE [doc |-> renders[k].doc, stage |-> "image", page |-> 1]]
  /\ UNCHANGED requests

\* pdf.getPage(i) of render k resolves: the page's unscaled size is pushed
\* and the page is rendered to its canvas.
PageLoaded(k) ==
  /\ k \in DOMAIN renders
  /\ renders[k].stage = "page"
  /\ AsyncStep([Cur EXCEPT !.pageDimensions =
                  Append(pageDimensions,
                         DocPages(renders[k].doc)[renders[k].page])], FALSE)
  /\ renders' = [renders EXCEPT ![k].stage = "canvas"]
  /\ UNCHANGED requests

\* page.render(...) of render k resolves: the canvas is appended; the loop
\* goes on to the next page or the render is done.
PageRendered(k) ==
  /\ k \in DOMAIN renders
  /\ renders[k].stage = "canvas"
  /\ AsyncStep([Cur EXCEPT !.previewPages =
                  Append(previewPages, [pageNumber |-> renders[k].page,
                                        doc |-> renders[k].doc])], FALSE)
  /\ renders' = IF renders[k].page < Len(DocPages(renders[k].doc))
                THEN [renders EXCEPT ![k].stage = "page",
                                     ![k].page = renders[k].page + 1]
                ELSE Remove(renders, k)
  /\ UNCHANGED requests

\* imagePreview.onload of render k.
ImageLoaded(k) ==
  /\ k \in DOMAIN renders
  /\ renders[k].stage = "image"
  /\ AsyncStep([Cur EXCEPT
                  !.pageDimensions =
                    Append(pageDimensions, DocPages(renders[k].doc)[1]),
                  !.previewPages =
                    Append(previewPages, [pageNumber |-> 1,
                                          doc |-> renders[k].doc])], FALSE)
  /\ renders' = Remove(renders, k)
  /\ UNCHANGED requests

\* The catch block of reader.onload: the file of render k is empty, or its
\* PDF cannot be parsed, or one of its pages cannot be loaded or rendered.
RenderFails(k) ==
  /\ k \in DOMAIN renders
  /\ renders[k].stage \in {"read", "page", "canvas"}
  /\ AsyncStep(ClearPreview([Cur EXCEPT !.file = NoFile, !.fileData = NoFile,
                                        !.controlsEnabled = FALSE]), TRUE)
  /\ renders' = Remove(renders, k)
  /\ UNCHANGED requests

\* The window is resized: the page surfaces are laid out anew; the overlays,
\* which are positioned in pixels, stay where they are.
Relayout ==
  /\ \E v \in Viewports \ {viewport} :
       UserStep([Cur EXCEPT !.viewport = v], FALSE)
  /\ UNCHANGED renders

---------------------------------------------------------------------------
(* Hover, selection and editing events *)

\* previewContainer 'mousemove' -> handlePreviewMouseMove(event)
PointerMoved(target, offset) ==
  /\ target \in {0} \cup DOMAIN previewPages
  /\ offset \in PointerOffsets
  /\ gesture = NULL
  /\ IF HoverSuppressed(Cur)
     THEN UNCHANGED <<file, fileData, pageDimensions, extractedData,
                      isThrottled, lastHoveredElementIndex, currentlyEditing,
                      controlsEnabled, previewPages, overlays, markdownItems,
                      jsonItems, loadingSpinner, exportDisabled,
                      feedbackHidden, viewport, renders, requests, timers,
                      gesture, count, sessionBase, last, geo>>
     ELSE /\ Commit(HoverAt([Cur EXCEPT !.isThrottled = TRUE], target, offset))
          /\ timers' = timers + 1
          /\ last' = "none"
          /\ sessionBase' = BaseAfter(Cur, FALSE)
          /\ UNCHANGED <<renders, requests, gesture, geo, count>>

\* The same, at no particular time.
PreviewMouseMove(target, offset) ==
  /\ PointerMoved(target, offset)
  /\ clock' = clock

\* A faulty variant of TimerFired: the callback leaves the flag set.
TimerFiredKeepsFlag ==
  /\ timers > 0
  /\ timers' = timers - 1
  /\ isThrottled' = isThrottled
  /\ last' = "none"
  /\ sessionBase' = BaseAfter(Cur, FALSE)
  /\ UNCHANGED <<file, fileData, pageDimensions, extractedData,
                 lastHoveredElementIndex, currentlyEditing, controlsEnabled,
                 previewPages, overlays, markdownItems, jsonItems,
                 loadingSpinner, exportDisabled, feedbackHidden, viewport,
                 renders, requests, gesture, count, geo>>

\* The timer set by handlePreviewMouseMove fires.
TimerFired ==
  /\ timers > 0
  /\ timers' = timers - 1
  /\ isThrottled' = FALSE
  /\ last' = "none"
  /\ sessionBase' = BaseAfter(Cur, FALSE)
  /\ UNCHANGED <<file, fileData, pageDimensions, extractedData,
                 lastHoveredElementIndex, currentlyEditing, controlsEnabled,
                 previewPages, overlays, markdownItems, jsonItems,
                 loadingSpinner, exportDisabled, feedbackHidden, viewport,
                 renders, requests, gesture, count, geo>>

\* The same, at no particular time.
ThrottleRelease ==
  /\ TimerFired
  /\ clock' = clock

\* previewContainer 'mouseleave'
PreviewMouseLeave ==
  /\ UserStep(IF currentlyEditing # NULL THEN Cur
              ELSE [ClearBoundingBoxes(Cur)
                      EXCEPT !.lastHoveredElementIndex = -1], FALSE)
  /\ UNCHANGED renders

\* jsonResultsContainer 'click' (isAnimated false) and 'mouseover' (true) on
\* the element wrapper of index.
JsonPointerEvent(s, index, isAnimated) ==
  IF s.currentlyEditing # NULL THEN s
  ELSE IF At(s.extractedData, index) = NULL THEN s
  ELSE DrawBoundingBox(s, At(s.extractedData, index), isAnimated, FALSE)

JsonClick(index) ==
  /\ index \in jsonItems
  /\ UserStepAs(JsonPointerEvent(Cur, index, FALSE), FALSE,
                IF currentlyEditing = NULL THEN "click" ELSE "none")
  /\ UNCHANGED renders

JsonMouseOver(index) ==
  /\ index \in jsonItems
  /\ UserStep(JsonPointerEvent(Cur, index, TRUE), FALSE)
  /\ UNCHANGED renders

\* jsonResultsContainer 'mouseleave'
JsonMouseLeave ==
  /\ UserStep(IF currentlyEditing # NULL THEN Cur
              ELSE ClearBoundingBoxes(Cur), FALSE)
  /\ UNCHANGED renders

\* The 'click' listener of the header of result-list entry index: it draws
\* the element the entry was built for.
HeaderClicked(s, index) ==
  IF s.currentlyEditing # NULL /\ s.currentlyEditing.index = index THEN s
  ELSE DrawBoundingBox(s, s.markdownItems[index + 1].element, FALSE, FALSE)

HeaderClick(index) ==
  /\ index + 1 \in DOMAIN markdownItems
  /\ UserStepAs(HeaderClicked(Cur, index), FALSE,
                IF currentlyEditing = NULL THEN "click" ELSE "none")
  /\ UNCHANGED renders

\* 'click' on the edit button of result-list entry index
EditClick(index) ==
  /\ index + 1 \in DOMAIN markdownItems
  /\ markdownItems[index + 1].buttons = "edit"
  /\ UserStepAs(EnterEditMode(Cur, index), FALSE,
                IF currentlyEditing # NULL /\ currentlyEditing.index = index
                THEN "reenter" ELSE "none")
  /\ UNCHANGED renders

\* 'click' on the save button of result-list entry index
SaveClick(index) ==
  /\ index + 1 \in DOMAIN markdownItems
  /\ markdownItems[index + 1].buttons = "save"
  /\ count.saves < MaxSaves
  /\ gesture = NULL
  /\ Frame(ExitEditMode(Cur, TRUE), FALSE, "save")
  /\ count' = [count EXCEPT !.saves = count.saves + 1]
  /\ UNCHANGED <<renders, requests, timers, gesture>>

\* 'click' on the cancel button of result-list entry index
CancelClick(index) ==
  /\ index + 1 \in DOMAIN markdownItems
  /\ markdownItems[index + 1].buttons = "save"
  /\ UserStepAs(ExitEditMode(Cur, FALSE), FALSE, "cancel")
  /\ UNCHANGED renders

---------------------------------------------------------------------------
(* Box editor gestures *)

\* handle.includes(letter) for the handle names of makeBoxEditable.
HandleIncludes(handle, letter) ==
  CASE letter = "n" -> handle \in {"nw", "n", "ne"}
    [] letter = "s" -> handle \in {"sw", "s", "se"}
    [] letter = "e" -> handle \in {"ne", "e", "se"}
    [] letter = "w" -> handle \in {"nw", "w", "sw"}

\* What initDrag and initResize capture at mousedown on overlay k.
GestureStart(kind, k, handle) ==
  [ kind |-> kind, box |-> k, handle |-> handle,
    startLeft |-> Round(overlays[k].left),
    startTop |-> Round(overlays[k].top),
    startWidth |-> Round(overlays[k].width),
    startHeight |-> Round(overlays[k].height) ]

\* A faulty variant of DoDrag: the displacement is added to the position
\* the rectangle has, not to the one it had at mousedown.
DoDragCumulative(boxDiv, g, dx, dy) ==
  [boxDiv EXCEPT
     !.left = CssPos(boxDiv.left, QInt(Round(boxDiv.left) + dx)),
     !.top = CssPos(boxDiv.top, QInt(Round(boxDiv.top) + dy))]

\* doDrag(moveEvent) with dx = clientX - startX, dy = clientY - startY
DoDrag(boxDiv, g, dx, dy) ==
  [boxDiv EXCEPT !.left = CssPos(boxDiv.left, QInt(g.startLeft + dx)),
                 !.top = CssPos(boxDiv.top, QInt(g.startTop + dy))]

\* doResize(moveEvent)
DoResize(boxDiv, g, dx, dy) ==
  LET \* the four tests of the handler, in its order: e, w, s, n
      North(b) ==
        IF HandleIncludes(g.handle, "n")
        THEN [b EXCEPT
                !.height = CssSize(b.height, QInt(g.startHeight - dy)),
                !.top = CssPos(b.top, QInt(g.startTop + dy))]
        ELSE b
      South(b) ==
        North(IF HandleIncludes(g.handle, "s")
              THEN [b EXCEPT
                      !.height = CssSize(b.height, QInt(g.startHeight + dy))]
              ELSE b)
      West(b) ==
        South(IF HandleIncludes(g.handle, "w")
              THEN [b EXCEPT
                      !.width = CssSize(b.width, QInt(g.startWidth - dx)),
                      !.left = CssPos(b.left, QInt(g.startLeft + dx))]
              ELSE b)
  IN  West(IF HandleIncludes(g.handle, "e")
           THEN [boxDiv EXCEPT
                   !.width = CssSize(boxDiv.width, QInt(g.startWidth + dx))]
           ELSE boxDiv)

GestureFrame ==
  /\ last' = "none"
  /\ UNCHANGED <<file, fileData, pageDimensions, extractedData, isThrottled,
              lastHoveredElementIndex, currentlyEditing, controlsEnabled,
              previewPages, markdownItems, jsonItems, loadingSpinner,
              exportDisabled, feedbackHidden, viewport, renders, requests,
              timers, geo, clock>>

\* 'mousedown' on editable overlay k -> initDrag
DragStart(k) ==
  /\ gesture = NULL
  /\ k \in DOMAIN overlays
  /\ overlays[k].editable
  /\ count.gestures < MaxGestures
  /\ count' = [count EXCEPT !.gestures = count.gestures + 1]
  /\ gesture' = GestureStart("drag", k, "none")
  /\ sessionBase' = BaseAfter(Cur, FALSE)
  /\ UNCHANGED overlays
  /\ GestureFrame

\* 'mousedown' on a resize handle of editable overlay k -> initResize
ResizeStart(k, handle) ==
  /\ gesture = NULL
  /\ k \in DOMAIN overlays
  /\ overlays[k].editable
  /\ handle \in Handles
  /\ count.gestures < MaxGestures
  /\ count' = [count EXCEPT !.gestures = count.gestures + 1]
  /\ gesture' = GestureStart("resize", k, handle)
  /\ sessionBase' = BaseAfter(Cur, FALSE)
  /\ UNCHANGED overlays
  /\ GestureFrame

\* document 'mousemove' while a gesture is in progress -> doDrag / doResize
GestureMove(d) ==
  /\ gesture # NULL
  /\ d \in PointerDeltas
  /\ overlays' =
       IF gesture.box = 0 THEN overlays
       ELSE [overlays EXCEPT ![gesture.box] =
               IF gesture.kind = "drag" THEN DoDrag(@, gesture, d[1], d[2])
               ELSE DoResize(@, gesture, d[1], d[2])]
  /\ sessionBase' =
       IF overlays' # overlays /\ BaseAfter(Cur, FALSE) # NoSession
       THEN [BaseAfter(Cur, FALSE) EXCEPT !.moved = gesture.kind]
       ELSE BaseAfter(Cur, FALSE)
  /\ UNCHANGED <<gesture, count>>
  /\ GestureFrame

\* document 'mouseup' -> stopDrag / stopResize
GestureEnd ==
  /\ gesture # NULL
  /\ gesture' = NULL
  /\ sessionBase' = BaseAfter(Cur, FALSE)
  /\ UNCHANGED <<overlays, count>>
  /\ GestureFrame

---------------------------------------------------------------------------
(* The specification *)

NoGeo == [stage |-> "off"]

\* Time is not followed: a timer may fire at any moment after it was set.
NoClock == [on |-> FALSE]

Init ==
  /\ file = NoFile
  /\ fileData = NoFile
  /\ pageDimensions = << >>
  /\ extractedData = << >>
  /\ isThrottled = FALSE
  /\ lastHoveredElementIndex = -1
  /\ currentlyEditing = NULL
  /\ controlsEnabled \in BOOLEAN
  /\ previewPages = << >>
  /\ overlays = << >>
  /\ markdownItems = << >>
  /\ jsonItems = {}
  /\ loadingSpinner = FALSE
  /\ exportDisabled = TRUE
  /\ feedbackHidden = TRUE
  /\ viewport \in Viewports
  /\ renders = << >>
  /\ requests = << >>
  /\ timers = 0
  /\ gesture = NULL
  /\ count = [gestures |-> 0, saves |-> 0, loads |-> 0]
  /\ sessionBase = NoSession
  /\ last = "none"
  /\ geo = NoGeo
  /\ clock = NoClock

\* File selection and the asynchronous rendering of the preview.
LoadEvents ==
  \/ \E d \in Docs : SelectFile(d)
  \/ SelectUnsupported
  \/ SelectNothing
  \/ \E k \in 1..MaxLoads : ReaderLoaded(k)
  \/ \E k \in 1..MaxLoads : PageLoaded(k)
  \/ \E k \in 1..MaxLoads : PageRendered(k)
  \/ \E k \in 1..MaxLoads : ImageLoaded(k)
  \/ \E k \in 1..MaxLoads : RenderFails(k)

\* Extraction requests and their answers.
ExtractEvents ==
  \/ ExtractClick
  \/ OcrSliderChange
  \/ \E k \in 1..MaxRequests : ResponseArrives(k)
  \/ \E k \in 1..MaxRequests : ResponseFails(k)

\* Hover and selection.
HoverEvents ==
  \/ \E target \in 0..(2 * MaxLoads), offset \in PointerOffsets :
       PreviewMouseMove(target, offset)
  \/ ThrottleRelease
  \/ PreviewMouseLeave
  \/ \E index \in 0..2 : JsonClick(index)
  \/ \E index \in 0..2 : JsonMouseOver(index)
  \/ JsonMouseLeave
  \/ \E index \in 0..2 : HeaderClick(index)

\* The edit session.
EditEvents ==
  \/ \E index \in 0..2 : EditClick(index)
  \/ \E index \in 0..2 : SaveClick(index)
  \/ \E index \in 0..2 : CancelClick(index)

\* Drag and resize of the editable overlays.
GestureEvents ==
  \/ \E k \in 1..2 : DragStart(k)
  \/ \E k \in 1..2, handle \in Handles : ResizeStart(k, handle)
  \/ \E d \in PointerDeltas : GestureMove(d)
  \/ GestureEnd

Next ==
  \/ LoadEvents
  \/ ExtractEvents
  \/ HoverEvents
  \/ EditEvents
  \/ GestureEvents
  \/ Relayout

Spec == Init /\ [][Next]_vars

---------------------------------------------------------------------------
(* Scenarios: the same handlers under a narrower environment *)

\* The state once the two-page PDF has been selected and its preview has
\* been rendered (SelectFile, ReaderLoaded, then PageLoaded and PageRendered
\* for each page).
Loaded ==
  /\ file = "pdf"
  /\ fileData = "pdf"
  /\ pageDimensions = DocPages("pdf")
  /\ extractedData = << >>
  /\ isThrottled = FALSE
  /\ lastHoveredElementIndex = -1
  /\ currentlyEditing = NULL
  /\ controlsEnabled = TRUE
  /\ previewPages = [k \in 1..2 |-> [pageNumber |-> k, doc |-> "pdf"]]
  /\ overlays = << >>
  /\ markdownItems = << >>
  /\ jsonItems = {}
  /\ loadingSpinner = FALSE
  /\ exportDisabled = TRUE
  /\ feedbackHidden = TRUE
  /\ viewport \in Viewports
  /\ renders = << >>
  /\ requests = << >>
  /\ timers = 0
  /\ gesture = NULL
  /\ count = [gestures |-> 0, saves |-> 0, loads |-> 1]
  /\ sessionBase = NoSession
  /\ last = "none"
  /\ geo = NoGeo

InitLoaded ==
  /\ Loaded
  /\ clock = NoClock

\* Selection in the result list and the JSON view.
ListEvents ==
  \/ \E index \in 0..2 : JsonClick(index)
  \/ \E index \in 0..2 : JsonMouseOver(index)
  \/ JsonMouseLeave
  \/ \E index \in 0..2 : HeaderClick(index)

\* Editing the boxes of a rendered document: extraction, the edit session,
\* gestures on the corner handles, and selection in the two result views.
EditNext ==
  \/ ExtractEvents
  \/ EditEvents
  \/ ListEvents
  \/ \E k \in 1..2 : DragStart(k)
  \/ \E k \in 1..2, handle \in CornerHandles : ResizeStart(k, handle)
  \/ \E d \in PointerDeltas : GestureMove(d)
  \/ GestureEnd

EditSpec == InitLoaded /\ [][EditNext]_vars

\* Pointing at a rendered document: extraction, the edit session, and every
\* hover and selection event.
HoverNext ==
  \/ ExtractEvents
  \/ EditEvents
  \/ HoverEvents

HoverSpec == InitLoaded /\ [][HoverNext]_vars

\* Selecting files one after the other (a file is selected only when no
\* render is in progress), extracting and editing.
LoadNext ==
  \/ renders = << >> /\ \E d \in Docs : SelectFile(d)
  \/ SelectUnsupported
  \/ SelectNothing
  \/ \E k \in 1..MaxLoads : ReaderLoaded(k)
  \/ \E k \in 1..MaxLoads : PageLoaded(k)
  \/ \E k \in 1..MaxLoads : PageRendered(k)
  \/ \E k \in 1..MaxLoads : ImageLoaded(k)
  \/ \E k \in 1..MaxLoads : RenderFails(k)
  \/ ExtractEvents
  \/ EditEvents

LoadSpec == Init /\ [][LoadNext]_vars

\* Moving the rectangles of an edit session: extraction, entering edit,
\* gestures on the rectangle and on each of its eight handles, and
\* pointer-moves over the preview.
GestureNext ==
  \/ ExtractClick
  \/ \E k \in 1..MaxRequests : ResponseArrives(k)
  \/ \E index \in 0..2 : EditClick(index)
  \/ GestureEvents
  \/ \E target \in 0..(2 * MaxLoads), offset \in PointerOffsets :
       PreviewMouseMove(target, offset)
  \/ ThrottleRelease

GestureSpec == InitLoaded /\ [][GestureNext]_vars

\* Requests and their answers in any order: the extract button, the OCR
\* slider, the answers, which mark the requests they overtake, and what
\* shows the list an answer has installed.
RaceNext ==
  \/ ExtractClick
  \/ OcrSliderChange
  \/ \E k \in 1..MaxRequests : ResponseOvertakes(k)
  \/ \E index \in 0..2 : JsonClick(index)
  \/ \E index \in 0..2 : EditClick(index)

RaceSpec == InitLoaded /\ [][RaceNext]_vars

\* Selecting files at any moment, a render of an earlier file in progress
\* or not, and nothing else.
RenderNext ==
  \/ \E d \in Docs : SelectFile(d)
  \/ SelectUnsupported
  \/ SelectNothing
  \/ \E k \in 1..MaxLoads : ReaderLoaded(k)
  \/ \E k \in 1..MaxLoads : PageLoaded(k)
  \/ \E k \in 1..MaxLoads : PageRendered(k)
  \/ \E k \in 1..MaxLoads : ImageLoaded(k)
  \/ \E k \in 1..MaxLoads : RenderFails(k)

RenderSpec == Init /\ [][RenderNext]_vars

---------------------------------------------------------------------------
(* Pointer-moves in time *)

\* The delay of the timer that clears isThrottled, in hundredths of a
\* second (50 ms).
ThrottleInterval == 5

\* now: the time, in hundredths of a second; due: when the pending timers
\* are due, in the order they were set; events: the 'mousemove' events
\* dispatched; passes: those that passed the guard of handlePreviewMouseMove
\* (each runs the hit test at most once); first, latest: when the first and
\* the latest event were dispatched; fast: every event but the first came
\* less than the interval after the one before it.
ClockStart ==
  [ on |-> TRUE, now |-> 0, due |-> << >>, events |-> 0, passes |-> 0,
    first |-> 0, latest |-> 0, fast |-> TRUE ]

\* Time passes.
Tick ==
  /\ clock.now < MaxTime
  /\ clock' = [clock EXCEPT !.now = @ + 1]
  /\ UNCHANGED <<file, fileData, pageDimensions, extractedData, isThrottled,
                 lastHoveredElementIndex, currentlyEditing, controlsEnabled,
                 previewPages, overlays, markdownItems, jsonItems,
                 loadingSpinner, exportDisabled, feedbackHidden, viewport,
                 renders, requests, timers, gesture, count, sessionBase,
                 last, geo>>

\* previewContainer 'mousemove' at the time clock.now
TimedMouseMove(target, offset) ==
  /\ clock.events < MaxEvents
  /\ PointerMoved(target, offset)
  /\ clock' =
       [clock EXCEPT
          !.events = @ + 1,
          !.passes = IF HoverSuppressed(Cur) THEN @ ELSE @ + 1,
          !.due = IF HoverSuppressed(Cur) THEN @
                  ELSE Append(@, clock.now + ThrottleInterval),
          !.first = IF clock.events = 0 THEN clock.now ELSE @,
          !.latest = clock.now,
          !.fast = @ /\ (clock.events = 0
                           \/ clock.now - clock.latest < ThrottleInterval)]

\* setTimeout(..., 50): the callback runs once the delay has elapsed, the
\* timers set earlier first.
TimedRelease ==
  /\ clock.due # << >>
  /\ clock.now >= Head(clock.due)
  /\ TimerFired
  /\ clock' = [clock EXCEPT !.due = Tail(@)]

ThrottleInit ==
  /\ Loaded
  /\ clock = ClockStart

\* A rendered document, extraction, and pointer-moves over its first page
\* and over the container around it as time passes.
ThrottleNext ==
  \/ ExtractClick
  \/ \E k \in 1..MaxRequests : ResponseArrives(k)
  \/ \E target \in 0..1, offset \in PointerOffsets :
       TimedMouseMove(target, offset)
  \/ TimedRelease
  \/ Tick

ThrottleSpec == ThrottleInit /\ [][ThrottleNext]_vars

\* Pointing at a rendered document while lists arrive and edit sessions open
\* and close.  The callback of a timer that has been set is run by the
\* event loop: it cannot stay pending for ever.
PointerNext ==
  \/ ExtractClick
  \/ \E k \in 1..MaxRequests : ResponseArrives(k)
  \/ \E index \in 0..2 : EditClick(index)
  \/ \E index \in 0..2 : CancelClick(index)
  \/ \E target \in 0..(2 * MaxLoads), offset \in PointerOffsets :
       PreviewMouseMove(target, offset)
  \/ PreviewMouseLeave
  \/ ThrottleRelease

PointerSpec ==
  InitLoaded /\ [][PointerNext]_vars /\ WF_vars(ThrottleRelease)

---------------------------------------------------------------------------
(* The coordinate conversions and the hit test on their own *)

\* Display sizes and positions of the one page surface, and page sizes:
\* aspects 1, 4/3, 2 and 1/2 against aspects 2, 1/2 and 1.
GeomViewports ==
  Viewports \cup
  { [width |-> 40, height |-> 20, left |-> 0, top |-> 0, pitch |-> 20],
    [width |-> 20, height |-> 40, left |-> 3, top |-> 5, pitch |-> 45] }

GeomPages ==
  { [width |-> QInt(40), height |-> QInt(20)],
    [width |-> QInt(20), height |-> QInt(40)],
    [width |-> QInt(20), height |-> QInt(20)] }

\* Normalized boxes: inner, the whole page, and two without area.
GeomBoxes == { Box(1, 1, 6, 6), Box(0, 0, 10, 10), Box(3, 6, 3, 9),
               Box(2, 5, 7, 5) }

\* The program's state but for the variables the functions read.
Quiescent ==
  /\ file = NoFile
  /\ fileData = NoFile
  /\ isThrottled = FALSE
  /\ lastHoveredElementIndex = -1
  /\ currentlyEditing = NULL
  /\ controlsEnabled = TRUE
  /\ overlays = << >>
  /\ markdownItems = << >>
  /\ jsonItems = {}
  /\ loadingSpinner = FALSE
  /\ exportDisabled = TRUE
  /\ feedbackHidden = TRUE
  /\ renders = << >>
  /\ requests = << >>
  /\ timers = 0
  /\ gesture = NULL
  /\ count = [gestures |-> 0, saves |-> 0, loads |-> 0]
  /\ sessionBase = NoSession
  /\ last = "none"
  /\ clock = NoClock

QuiescentStep ==
  UNCHANGED <<file, fileData, pageDimensions, extractedData, isThrottled,
              lastHoveredElementIndex, currentlyEditing, controlsEnabled,
              previewPages, overlays, markdownItems, jsonItems,
              loadingSpinner, exportDisabled, feedbackHidden, viewport,
              renders, requests, timers, gesture, count, sessionBase, last,
              clock>>

\* One page surface of some display size showing a page of some size, and a
\* normalized box to convert.
GeomInit ==
  /\ Quiescent
  /\ viewport \in GeomViewports
  /\ pageDimensions \in {<<pageDim>> : pageDim \in GeomPages}
  /\ previewPages = << [pageNumber |-> 1, doc |-> "img"] >>
  /\ extractedData = << >>
  /\ geo \in {[stage |-> "box", box |-> box, coordSystem |-> NULL,
                pixels |-> NULL, back |-> NULL] : box \in GeomBoxes}

\* getCoordinateSystem and normalizedToPixels are applied to the box.
Project ==
  /\ geo.stage = "box"
  /\ LET Projected(coordSystem) ==
           [geo EXCEPT !.stage = "pixels",
                       !.coordSystem = coordSystem,
                       !.pixels = NormalizedToPixels(geo.box, coordSystem)]
     IN  geo' = Projected(GetCoordinateSystem(Cur, QuerySelector(Cur, 1), 1))
  /\ QuiescentStep

\* pixelsToNormalized is applied to the pixel rectangle.
Unproject ==
  /\ geo.stage = "pixels"
  /\ geo' = [geo EXCEPT !.stage = "back",
                        !.back = PixelsToNormalized(Cur, geo.pixels, 1)]
  /\ QuiescentStep

GeomNext == Project \/ Unproject

GeomSpec == GeomInit /\ [][GeomNext]_vars

\* Normalized pointer positions, in tenths of the page.
HitPoints == {<<x, y>> : x \in {2, 4, 5, 8}, y \in {2, 4, 5, 8}}

\* An extracted list, and the pointer at a normalized position of a page.
HitInit ==
  /\ Quiescent
  /\ viewport \in Viewports
  /\ pageDimensions = DocPages("pdf")
  /\ previewPages = [k \in 1..2 |-> [pageNumber |-> k, doc |-> "pdf"]]
  /\ extractedData \in Responses
  /\ geo \in {[stage |-> "pointer", pageNum |-> pageNum,
                normalizedX |-> Q(p[1], 10), normalizedY |-> Q(p[2], 10),
                foundElementIndex |-> -1] :
               pageNum \in 1..2, p \in HitPoints}

\* The backward scan of handlePreviewMouseMove is applied.
HitTest ==
  /\ geo.stage = "pointer"
  /\ geo' = [geo EXCEPT
               !.stage = "found",
               !.foundElementIndex =
                 FoundElementIndex(extractedData, geo.pageNum,
                                   geo.normalizedX, geo.normalizedY)]
  /\ QuiescentStep

HitNext == HitTest

HitSpec == HitInit /\ [][HitNext]_vars

\* Pixel rectangles as updateElementFromEditableBoxes reads them from an
\* overlay (offsetLeft, offsetTop, offsetWidth, offsetHeight).
PixelRects ==
  { [left |-> QInt(l), top |-> QInt(u), width |-> QInt(w), height |-> QInt(6)] :
      l \in {10, 14}, u \in {10, 20}, w \in {8, 20} }

\* One page surface with or without its page record (the record is missing
\* when a file has been selected while a page of the file before it was
\* being rendered: clearPreview empties pageDimensions, and the canvas of
\* that page is appended afterwards), and a pixel rectangle to convert.
ResolverInit ==
  /\ Quiescent
  /\ viewport \in GeomViewports
  /\ pageDimensions \in {<< >>} \cup {<<pageDim>> : pageDim \in GeomPages}
  /\ previewPages = << [pageNumber |-> 1, doc |-> "pdf"] >>
  /\ extractedData = << >>
  /\ geo \in {[stage |-> "rect", pixels |-> r, back |-> NULL] :
               r \in PixelRects}

\* pixelsToNormalized is applied to the rectangle, as a save applies it.
Convert ==
  /\ geo.stage = "rect"
  /\ geo' = [geo EXCEPT !.stage = "converted",
                        !.back = PixelsToNormalized(Cur, geo.pixels, 1)]
  /\ QuiescentStep

ResolverNext == Convert

ResolverSpec == ResolverInit /\ [][ResolverNext]_vars

\* Display and page sizes with sides of length zero among them: a surface
\* that has not been laid out, an image without intrinsic size.
SidesWithZero == {0, 20, 40}

\* One page surface of some display size, possibly zero, showing a page of
\* some size, possibly zero.
DegenerateInit ==
  /\ Quiescent
  /\ viewport \in {[width |-> w, height |-> h, left |-> 10, top |-> 10,
                     pitch |-> 50] : w \in SidesWithZero, h \in SidesWithZero}
  /\ pageDimensions \in {<< [width |-> QInt(w), height |-> QInt(h)] >> :
                            w \in SidesWithZero, h \in SidesWithZero}
  /\ previewPages = << [pageNumber |-> 1, doc |-> "img"] >>
  /\ extractedData = << >>
  /\ geo = [stage |-> "surface", coordSystem |-> NULL]

\* getCoordinateSystem is applied to the surface.
Resolve ==
  /\ geo.stage = "surface"
  /\ geo' = [geo EXCEPT !.stage = "resolved",
                        !.coordSystem = GetCoordinateSystem(Cur, 1, 1)]
  /\ QuiescentStep

DegenerateNext == Resolve

DegenerateSpec == DegenerateInit /\ [][DegenerateNext]_vars

---------------------------------------------------------------------------
(* Properties of the coordinate conversions *)

\* C7: for every coordinate system with positive scale and positive content
\* dimensions and every normalized box with 0 <= left <= right <= 1 and
\* 0 <= top <= bottom <= 1, normalizedToPixels followed by pixelsToNormalized
\* under the same coordinate system yields the original box.  (Numbers are
\* exact rationals here.)
RoundTrip ==
  (/\ geo.stage = "back"
   /\ QGt(geo.coordSystem.coords.scale, QInt(0))
   /\ QGt(geo.coordSystem.page.width, QInt(0))
   /\ QGt(geo.coordSystem.page.height, QInt(0))
   /\ QLe(QInt(0), geo.box.left) /\ QLe(geo.box.left, geo.box.right)
   /\ QLe(geo.box.right, QInt(1))
   /\ QLe(QInt(0), geo.box.top) /\ QLe(geo.box.top, geo.box.bottom)
   /\ QLe(geo.box.bottom, QInt(1)))
  => geo.back = geo.box

\* A box has been converted and converted back on a surface whose content
\* is offset inside it.
RoundTripDone ==
  /\ geo.stage = "back"
  /\ QGt(geo.coordSystem.coords.scale, QInt(0))
  /\ QGt(geo.coordSystem.coords.offsetY, QInt(0))
  /\ geo.box = Box(1, 1, 6, 6)
  /\ geo.back = geo.box

\* The aspect ratios of the surface and of the page of a coordinate system.
DisplayAspect(cs) == QDiv(cs.display.width, cs.display.height)

ContentAspect(cs) == QDiv(cs.page.width, cs.page.height)

\* C8: when displayAspect > contentAspect, scale = surfaceHeight /
\* contentHeight, offsetY = 0 and offsetX = (surfaceWidth - contentWidth *
\* scale) / 2 > 0; otherwise scale = surfaceWidth / contentWidth, offsetX = 0
\* and offsetY = (surfaceHeight - contentHeight * scale) / 2, positive when
\* the aspects differ.  Content aspect 2 on display aspect 1 gives offsetX =
\* 0 and offsetY > 0; content aspect 1 on display aspect 2 gives offsetY = 0
\* and offsetX > 0.
LetterboxPillarbox ==
  geo.stage \in {"pixels", "back"} =>
    LET cs == geo.coordSystem
        c == cs.coords
    IN  /\ cs.display = [width |-> QInt(viewport.width),
                         height |-> QInt(viewport.height)]
        /\ cs.page = pageDimensions[1]
        /\ IF QGt(DisplayAspect(cs), ContentAspect(cs))
           THEN /\ c.scale = QDiv(cs.display.height, cs.page.height)
                /\ c.offsetY = QInt(0)
                /\ c.offsetX = QDiv(QSub(cs.display.width,
                                         QMul(cs.page.width, c.scale)),
                                    QInt(2))
                /\ QGt(c.offsetX, QInt(0))
           ELSE /\ c.scale = QDiv(cs.display.width, cs.page.width)
                /\ c.offsetX = QInt(0)
                /\ c.offsetY = QDiv(QSub(cs.display.height,
                                         QMul(cs.page.height, c.scale)),
                                    QInt(2))
                /\ (DisplayAspect(cs) # ContentAspect(cs)
                      => QGt(c.offsetY, QInt(0)))
        /\ (ContentAspect(cs) = QInt(2) /\ DisplayAspect(cs) = QInt(1)
              => c.offsetX = QInt(0) /\ QGt(c.offsetY, QInt(0)))
        /\ (ContentAspect(cs) = QInt(1) /\ DisplayAspect(cs) = QInt(2)
              => c.offsetY = QInt(0) /\ QGt(c.offsetX, QInt(0)))

\* The coordinate system of a display wider than its content has been
\* computed.
WideDisplayComputed ==
  /\ geo.stage = "pixels"
  /\ ContentAspect(geo.coordSystem) = QInt(1)
  /\ DisplayAspect(geo.coordSystem) = QInt(2)
  /\ geo.coordSystem.coords.scale = QInt(1)
  /\ geo.coordSystem.coords.offsetX = QInt(10)

---------------------------------------------------------------------------
(* Properties of the hit test *)

\* The elements of the list on page pageNum one of whose tested boxes
\* contains the point, by list index.
Containing(list, pageNum, x, y) ==
  {i \in 0..(Len(list) - 1) :
     /\ list[i + 1].page = pageNum
     /\ \E k \in DOMAIN BoxesOf(list[i + 1]) :
          LET box == BoxesOf(list[i + 1])[k]
          IN  /\ QLe(box.left, x) /\ QLe(x, box.right)
              /\ QLe(box.top, y) /\ QLe(y, box.bottom)}

\* C9: the resolved index is the greatest list index among the elements on
\* the pointed-at page whose boxes contain the pointer position; it is -1
\* only when no element on that page contains it.
TopmostWins ==
  geo.stage = "found" =>
    LET hits == Containing(extractedData, geo.pageNum,
                           geo.normalizedX, geo.normalizedY)
    IN  /\ hits # {} =>
             /\ geo.foundElementIndex \in hits
             /\ \A i \in hits : i <= geo.foundElementIndex
        /\ geo.foundElementIndex = -1 <=> hits = {}

\* A point inside boxes of elements 0 and 1 of the page has resolved to 1.
TopmostResolved ==
  /\ geo.stage = "found"
  /\ {0, 1} \subseteq Containing(extractedData, geo.pageNum,
                                 geo.normalizedX, geo.normalizedY)
  /\ geo.foundElementIndex = 1

\* C10: for a pointer over page p the hit test never resolves to an element
\* whose page number differs from p, even when the pointer's normalized
\* coordinates lie inside that element's boxes.
PageIsolation ==
  geo.stage = "found" /\ geo.foundElementIndex # -1 =>
    /\ geo.foundElementIndex + 1 \in DOMAIN extractedData
    /\ extractedData[geo.foundElementIndex + 1].page = geo.pageNum

\* The pointer is over page 1 at a position inside the boxes of an element
\* of page 2 that comes later in the list, and an element of page 1 has
\* been resolved.
OtherPagePassedOver ==
  /\ geo.stage = "found"
  /\ geo.pageNum = 1
  /\ 2 \in Containing(extractedData, 2, geo.normalizedX, geo.normalizedY)
  /\ geo.foundElementIndex \in {0, 1}

---------------------------------------------------------------------------
(* Properties of the edit session *)

\* The handler that has just run destroyed an edit session that nothing had
\* replaced or cleared the list or the preview under.
SessionClosedBy(tag) ==
  /\ last = tag
  /\ sessionBase # NoSession
  /\ ~sessionBase.open
  /\ sessionBase.clean

\* C1: entering edit mode on element i, applying any sequence of drag and
\* resize gestures to its editable overlays and then cancelling leaves
\* element i deep-equal to its value before the session was entered and
\* leaves every other element of the list unchanged.
CancelRestores ==
  SessionClosedBy("cancel") => extractedData = sessionBase.list

\* A session in which a gesture moved an overlay has been cancelled.
CancelledAfterGesture ==
  /\ SessionClosedBy("cancel")
  /\ sessionBase.moved # "no"
  /\ Len(extractedData) > 0
  /\ extractedData = sessionBase.list

\* The editable overlays, by position among the overlays.
EditableBoxes == {k \in DOMAIN overlays : overlays[k].editable}

\* The pixel rectangle of a normalized box of page pageNum as the preview
\* is laid out.
Reprojected(box, pageNum) ==
  NormalizedToPixels(box, GetCoordinateSystem(Cur, QuerySelector(Cur, pageNum),
                                              pageNum))

\* C2: for an element i that has only a bounding_box, entering edit,
\* resizing its overlay and saving makes the new bounding_box the inverse
\* projection of the resized pixel rectangle (re-projecting it gives the
\* resized rectangle), and no other element of the list and no other field
\* of element i is altered.
SaveWritesBoundingBox ==
  [][ (/\ last' = "save"
       /\ currentlyEditing # NULL
       /\ sessionBase # NoSession /\ sessionBase.clean
       /\ At(extractedData, currentlyEditing.index) # NULL
       /\ At(extractedData, currentlyEditing.index).line_boxes = << >>
       /\ At(extractedData, currentlyEditing.index).bounding_box # NULL
       /\ Cardinality(EditableBoxes) = 1)
      => LET i == currentlyEditing.index
             old == At(extractedData, i)
             new == At(extractedData', i)
             boxDiv == overlays[CHOOSE k \in EditableBoxes : TRUE]
         IN  /\ Len(extractedData') = Len(extractedData)
             /\ \A j \in 0..(Len(extractedData) - 1) :
                  j # i => At(extractedData', j) = At(extractedData, j)
             /\ new = [old EXCEPT !.bounding_box = new.bounding_box]
             /\ Reprojected(new.bounding_box, old.page) = OffsetBounds(boxDiv)
    ]_vars

\* The session of an element that has only a bounding_box has been saved
\* after its overlay was resized, and the box has changed.
SavedAfterResize ==
  /\ SessionClosedBy("save")
  /\ sessionBase.moved = "resize"
  /\ LET old == At(sessionBase.list, sessionBase.index)
         new == At(extractedData, sessionBase.index)
     IN  /\ old.line_boxes = << >>
         /\ new.bounding_box # old.bounding_box
         /\ new = [old EXCEPT !.bounding_box = new.bounding_box]

\* C3: while an edit session is open on element i, no hover event
\* (pointer-move or pointer-leave on the preview, mouseover or mouseleave on
\* the JSON view) and no click event (JSON element click, result-list header
\* click) targeting another element j # i draws an overlay for j, removes
\* overlays, or changes the hover index.
EditingIsExclusive ==
  [][ (/\ currentlyEditing # NULL
       /\ \/ \E target \in 0..(2 * MaxLoads), offset \in PointerOffsets :
               PreviewMouseMove(target, offset)
          \/ PreviewMouseLeave
          \/ JsonMouseLeave
          \/ \E j \in 0..2 :
               /\ j # currentlyEditing.index
               /\ JsonClick(j) \/ JsonMouseOver(j) \/ HeaderClick(j))
      => /\ overlays' = overlays
         /\ lastHoveredElementIndex' = lastHoveredElementIndex
    ]_vars

\* C4: after the file-selection handler has processed a new valid file, no
\* edit session is open.
NoSessionAfterFileLoad ==
  last = "select" => currentlyEditing = NULL

\* C5: starting an extraction with a file loaded while an edit session is
\* open cancels the session first and only then clears the results and the
\* overlays and issues the request: the session is destroyed, the list, the
\* result views and the overlays are empty (a snapshot restored after the
\* clearing would be left in the list), and the request is in flight.
ExtractionCancelsSession ==
  (last = "extract" /\ sessionBase # NoSession) =>
    /\ ~sessionBase.open
    /\ currentlyEditing = NULL
    /\ extractedData = << >>
    /\ markdownItems = << >>
    /\ jsonItems = {}
    /\ overlays = << >>
    /\ loadingSpinner
    /\ Len(requests) > 0

\* An extraction has been started while a session with a moved overlay was
\* open.
ExtractedWhileEditing ==
  /\ SessionClosedBy("extract")
  /\ sessionBase.moved # "no"
  /\ extractedData = << >>
  /\ Len(requests) > 0

\* C6: in every reachable state at most one extraction request is in
\* flight, whatever sequence of extract-button clicks and OCR-threshold
\* slider changes occurs.
AtMostOneRequest ==
  Len(requests) <= 1

---------------------------------------------------------------------------
(* Properties of hovering, selection and failures *)

\* An element with neither a bounding_box nor a non-empty line_boxes array.
Malformed(element) ==
  /\ element # NULL
  /\ element.line_boxes = << >>
  /\ element.bounding_box = NULL

\* What a handler that leaves the state after has done for element j: no
\* overlay is displayed, or the overlays are as they were, and the element
\* is where it was.
NothingDrawnFor(after, j) ==
  /\ after.overlays \in {<< >>, overlays}
  /\ At(after.extractedData, j) = At(extractedData, j)

\* C11: an element with neither a bounding_box nor a non-empty line_boxes
\* array never produces an overlay (whatever state a JSON click or
\* mouseover, a header click or an edit click on it runs in), is never the
\* index a pointer-move resolves to, and stays in the list at its position;
\* a list that has just arrived is stored and displayed whole.
MalformedElementTolerated ==
  /\ \A j \in 0..2 :
       /\ Malformed(At(extractedData, j))
          => /\ \A isAnimated \in BOOLEAN :
                  NothingDrawnFor(JsonPointerEvent(Cur, j, isAnimated), j)
             /\ NothingDrawnFor(EnterEditMode(Cur, j), j)
             /\ ~HoverSuppressed(Cur)
                => \A target \in {0} \cup DOMAIN previewPages,
                      offset \in PointerOffsets :
                     HoverAt(Cur, target, offset).lastHoveredElementIndex
                       \in ({-1, 0, 1, 2} \ {j}) \cup {lastHoveredElementIndex}
       /\ (/\ j + 1 \in DOMAIN markdownItems
           /\ Malformed(markdownItems[j + 1].element))
          => NothingDrawnFor(HeaderClicked(Cur, j), j)
  /\ last = "response"
     => /\ extractedData \in Responses
        /\ [k \in DOMAIN markdownItems |-> markdownItems[k].element]
             = extractedData
        /\ jsonItems = {i \in 0..2 : i < Len(extractedData)}

\* An edit session has been entered on an element without boxes: nothing is
\* drawn, and the element is where it was.
MalformedElementEdited ==
  /\ extractedData = ListB
  /\ Malformed(At(extractedData, 0))
  /\ currentlyEditing # NULL
  /\ currentlyEditing.index = 0
  /\ overlays = << >>
  /\ Len(markdownItems) = 2

\* C12: pointer-move processing makes at most one hit-test pass per 50 ms:
\* for the events dispatched over an elapsed time T (from the first to the
\* latest), the passes are at most T / 50 ms + 1, and they are strictly
\* fewer than the events when every event came less than 50 ms after the
\* one before it.
ThrottleDrop ==
  /\ clock.passes >= 1
     => (clock.passes - 1) * ThrottleInterval <= clock.latest - clock.first
  /\ clock.events >= 2 /\ clock.fast => clock.passes < clock.events

\* Three pointer-moves have come within 50 ms over an extracted list, of
\* which one has been processed.
FastMovesDropped ==
  /\ clock.events = 3
  /\ clock.fast
  /\ clock.latest - clock.first < ThrottleInterval
  /\ clock.passes = 1
  /\ Len(extractedData) > 0

\* C13: whenever an extraction request fails, in the resulting state the
\* element list is empty, no overlay is displayed, and the export and
\* feedback controls are disabled, whatever requests and user events came
\* before the failure.
FailureClearsEverything ==
  last = "failure"
    => /\ extractedData = << >>
       /\ overlays = << >>
       /\ exportDisabled
       /\ feedbackHidden

DivideByZeroGuard ==
  (/\ geo.stage = "resolved"
   /\ \/ viewport.width = 0
      \/ viewport.height = 0
      \/ pageDimensions[1].width = QInt(0)
      \/ pageDimensions[1].height = QInt(0))
  => geo.coordSystem = NULL

\* C16: entering edit mode on element j while an edit session is open on a
\* different element i first cancels the session on i (element i is the
\* snapshot of that session, the rest of the list is as it was, the list is
\* the one the session on i was entered with when nothing replaced it, the
\* entry of i shows its edit button again, and the moved overlays of i are
\* gone) and then opens a session on j: its snapshot is a deep copy of
\* element j, the overlays are the editable boxes of j as the list holds
\* them, and the one session is that on j.  (Every entry whose edit button
\* can be clicked during a session has its element in the list.)
EditSwitchCancels ==
  /\ currentlyEditing # NULL =>
       \A k \in DOMAIN markdownItems : At(extractedData, k - 1) # NULL
  /\ (sessionBase # NoSession /\ sessionBase.prior # NoSession) =>
    /\ sessionBase.index # sessionBase.prior.index
    /\ currentlyEditing =
         [index |-> sessionBase.index,
          originalElement |-> DeepCopy(At(extractedData, sessionBase.index))]
    /\ extractedData = SetAt(sessionBase.prior.list, sessionBase.prior.index,
                             sessionBase.prior.snapshot)
    /\ sessionBase.prior.clean => extractedData = sessionBase.prior.entered
    /\ overlays = DrawBoundingBox(ClearBoundingBoxes(Cur),
                                  At(extractedData, sessionBase.index),
                                  FALSE, TRUE).overlays
    /\ \A k \in DOMAIN markdownItems :
         markdownItems[k].buttons = "save" <=> k = sessionBase.index + 1

\* The edit button of another element has been clicked while a session with
\* a moved overlay was open.
EditSwitched ==
  /\ sessionBase # NoSession
  /\ sessionBase.prior # NoSession
  /\ sessionBase.prior.moved # "no"
  /\ sessionBase.prior.clean
  /\ overlays # << >>

\* C17: a click on the edit button of the element that is being edited
\* changes nothing: the snapshot of the session, the list, the overlays
\* with the geometry the gestures gave them, and the result views are as
\* they were.
ReenterIsNoOp ==
  [][ (currentlyEditing # NULL /\ EditClick(currentlyEditing.index))
      => UNCHANGED <<currentlyEditing, extractedData, overlays,
                     markdownItems, jsonItems, lastHoveredElementIndex>>
    ]_vars

\* The edit button of the element being edited has been clicked after a
\* gesture moved an overlay of the session.
ReenteredAfterGesture ==
  /\ last = "reenter"
  /\ currentlyEditing # NULL
  /\ sessionBase.moved # "no"
  /\ EditableBoxes # {}

\* C18: from the moment an edit session draws the editable rectangles of
\* its element until the session ends by save or cancel, those rectangles
\* stay displayed: as long as the session is open and nothing has replaced
\* the list or the preview under it, there are as many editable overlays as
\* the session drew, so a save reads every one of them.
EditableOverlaysPersist ==
  (/\ currentlyEditing # NULL
   /\ sessionBase # NoSession
   /\ sessionBase.open
   /\ sessionBase.clean)
  => Cardinality(EditableBoxes) =
       Len(DrawBoundingBox(ClearBoundingBoxes(Cur),
                           At(sessionBase.list, sessionBase.index),
                           FALSE, TRUE).overlays)

\* C19: after a click on a JSON element or a result-list header outside
\* edit mode has selected element i, the pointer leaving the preview or the
\* JSON view does not remove the overlay of element i.
PinnedSelectionPersists ==
  [][ (/\ last = "click"
       /\ currentlyEditing = NULL
       /\ PreviewMouseLeave \/ JsonMouseLeave)
      => overlays' = overlays
    ]_vars

\* C20: outside edit mode, after every pointer-move whose hit test is
\* processed, the displayed overlays are those of the element the hit test
\* resolved, and there is none when it resolved no element: a processed hit
\* test that resolves element i never leaves the display without the
\* overlay of i.
OverlayFollowsLatestEvent ==
  [][ \A target \in 1..(2 * MaxLoads), offset \in PointerOffsets :
        (/\ currentlyEditing = NULL
         /\ ~HoverSuppressed(Cur)
         /\ PreviewMouseMove(target, offset)
         /\ At(pageDimensions, previewPages[target].pageNumber - 1) # NULL)
        => LET Shown(foundElementIndex) ==
                 \/ foundElementIndex = ScanThrown
                 \/ /\ foundElementIndex = -1
                    /\ overlays' = << >>
                 \/ /\ foundElementIndex \notin {ScanThrown, -1}
                    /\ overlays' =
                         DrawBoundingBox(ClearBoundingBoxes(Cur),
                                         At(extractedData, foundElementIndex),
                                         FALSE, FALSE).overlays
               Resolved(p) ==
                 Shown(FoundElementIndex(extractedData,
                                         previewPages[target].pageNumber,
                                         p.x, p.y))
           IN  Resolved(NormalizedPointer(Cur, target, offset))
    ]_vars

---------------------------------------------------------------------------
(* Properties of the shared lists and of the gestures *)

\* C21: the element list changes only when a completed extraction replaces
\* it or when a save changes the box fields of one element; every other
\* operation (hover, selection, entering edit, drag, resize, starting an
\* extraction, a failed extraction) leaves its contents unchanged.
ListDiscipline ==
  [][ extractedData' # extractedData
      => \/ last' = "response"
         \/ /\ last' = "save"
            /\ Len(extractedData') = Len(extractedData)
            /\ \E i \in DOMAIN extractedData :
                 /\ \A j \in DOMAIN extractedData \ {i} :
                      extractedData'[j] = extractedData[j]
                 /\ extractedData'[i] =
                      [extractedData[i] EXCEPT
                         !.bounding_box = extractedData'[i].bounding_box,
                         !.line_boxes = extractedData'[i].line_boxes]
    ]_vars

\* C22: after any sequence of file selections, a new file selected while
\* the pages of an earlier one are still being rendered included, every
\* page surface of the preview has the record of its page at its page
\* number, and once the renders are over the page-record list is that of
\* the document selected last.
PageRecordsOfLatestDocument ==
  /\ \A k \in DOMAIN previewPages :
       At(pageDimensions, previewPages[k].pageNumber - 1) =
         DocPages(previewPages[k].doc)[previewPages[k].pageNumber]
  /\ (renders = << >> /\ file # NoFile /\ fileData # NoFile)
       => pageDimensions = DocPages(file)

\* The four coordinates of a box are in [0, 1].
InUnitRange(box) ==
  \/ box = NULL
  \/ \A v \in {box.left, box.top, box.right, box.bottom} :
       QLe(QInt(0), v) /\ QLe(v, QInt(1))

\* C23: every box the extraction delivers has its coordinates in [0, 1],
\* and after any sequence of edit sessions (drag, resize, save, cancel)
\* every bounding_box and every line_boxes entry of the list still has.
BoxesStayNormalized ==
  /\ \A list \in Responses : \A i \in DOMAIN list :
       /\ InUnitRange(list[i].bounding_box)
       /\ \A k \in DOMAIN list[i].line_boxes :
            InUnitRange(list[i].line_boxes[k])
  /\ \A i \in DOMAIN extractedData :
       extractedData[i] # NULL =>
         /\ InUnitRange(extractedData[i].bounding_box)
         /\ \A k \in DOMAIN extractedData[i].line_boxes :
              InUnitRange(extractedData[i].line_boxes[k])

\* C24: in every reachable state, if an extraction request has been issued
\* and has neither succeeded nor failed yet, the loading indicator is
\* visible.
BusyWhileOutstanding ==
  Len(requests) > 0 => loadingSpinner

\* C25: the answer to an extraction request that was issued for a document
\* other than the one selected now is never installed as the element list:
\* the list, emptied by the load, stays as it is when such an answer
\* arrives.
StaleAnswerNotInstalled ==
  [][ \A k \in 1..MaxRequests :
        (/\ k \in DOMAIN requests
         /\ file # NoFile
         /\ requests[k].doc # file
         /\ ResponseArrives(k))
        => extractedData' = extractedData
    ]_vars

\* C26: a save on an element whose line_boxes is not empty writes into
\* line_boxes[k] the inverse projection of the editable rectangle drawn for
\* line box k (re-projecting it gives the rectangle), for every rectangle
\* drawn, and leaves every other line box, the length of line_boxes, the
\* bounding_box, every other field of the element and every other element
\* unchanged.
SaveWritesLineBoxes ==
  [][ (/\ last' = "save"
       /\ currentlyEditing # NULL
       /\ sessionBase # NoSession /\ sessionBase.clean
       /\ At(extractedData, currentlyEditing.index) # NULL
       /\ Len(At(extractedData, currentlyEditing.index).line_boxes) > 0)
      => LET i == currentlyEditing.index
             old == At(extractedData, i)
             new == At(extractedData', i)
         IN  /\ Len(extractedData') = Len(extractedData)
             /\ \A j \in 0..(Len(extractedData) - 1) :
                  j # i => At(extractedData', j) = At(extractedData, j)
             /\ new = [old EXCEPT !.line_boxes = new.line_boxes]
             /\ Len(new.line_boxes) = Len(old.line_boxes)
             /\ \A k \in EditableBoxes :
                  Reprojected(new.line_boxes[overlays[k].boxIndex + 1],
                              old.page) = OffsetBounds(overlays[k])
             /\ \A b \in DOMAIN old.line_boxes :
                  (\A k \in EditableBoxes : overlays[k].boxIndex + 1 # b)
                    => new.line_boxes[b] = old.line_boxes[b]
    ]_vars

\* The session of an element with two line boxes has been saved after one
\* of its rectangles was moved: the line boxes have changed and the
\* bounding_box has not.
SavedLineBoxes ==
  /\ SessionClosedBy("save")
  /\ sessionBase.moved # "no"
  /\ LET old == At(sessionBase.list, sessionBase.index)
         new == At(extractedData, sessionBase.index)
     IN  /\ Len(old.line_boxes) = 2
         /\ new.line_boxes # old.line_boxes
         /\ new.bounding_box = old.bounding_box

\* left <= x <= right and top <= y <= bottom, bounds included.
Within(box, x, y) ==
  /\ box # NULL
  /\ QLe(box.left, x) /\ QLe(x, box.right)
  /\ QLe(box.top, y) /\ QLe(y, box.bottom)

\* The point is in one of the line boxes of the element when it has any,
\* and in its bounding_box otherwise.
Member(element, x, y) ==
  IF Len(element.line_boxes) > 0
  THEN \E k \in DOMAIN element.line_boxes : Within(element.line_boxes[k], x, y)
  ELSE Within(element.bounding_box, x, y)

\* C27: an element of the pointed-at page matches iff the pointer's
\* normalized position is within (bounds included) one of its line boxes
\* when it has line boxes, and within its bounding_box otherwise; the
\* bounding_box of an element with line boxes is not consulted.  The scan
\* resolves the last element of the list that matches so.
HitMembership ==
  geo.stage = "found" =>
    /\ \A i \in DOMAIN extractedData :
         Matches(extractedData[i], geo.pageNum,
                 geo.normalizedX, geo.normalizedY)
           <=> /\ extractedData[i].page = geo.pageNum
               /\ Member(extractedData[i], geo.normalizedX, geo.normalizedY)
    /\ \A i \in DOMAIN extractedData :
         (/\ extractedData[i].page = geo.pageNum
          /\ Member(extractedData[i], geo.normalizedX, geo.normalizedY))
           => geo.foundElementIndex >= i - 1
    /\ geo.foundElementIndex # -1 =>
         Member(extractedData[geo.foundElementIndex + 1],
                geo.normalizedX, geo.normalizedY)

\* The pointer is inside the bounding_box of the paragraph and in none of
\* its line boxes, and the paragraph has not been resolved.
BoundingBoxNotConsulted ==
  /\ geo.stage = "found"
  /\ extractedData = ListA
  /\ geo.pageNum = 1
  /\ Within(ListA[2].bounding_box, geo.normalizedX, geo.normalizedY)
  /\ ~Member(ListA[2], geo.normalizedX, geo.normalizedY)
  /\ geo.foundElementIndex # 1

\* C28: a drag captures the pixel position of the rectangle at
\* pointer-down; until the next pointer-up every pointer move puts the
\* rectangle at that position plus the displacement of the pointer since
\* pointer-down and leaves its width and height, and every other
\* rectangle, as they were; a pointer move when no gesture is in progress
\* changes no rectangle.
DragFollowsPointer ==
  [][ /\ \A k \in 1..2 :
           DragStart(k) =>
             /\ QInt(gesture'.startLeft) = OffsetBounds(overlays[k]).left
             /\ QInt(gesture'.startTop) = OffsetBounds(overlays[k]).top
      /\ \A d \in PointerDeltas :
           (/\ gesture # NULL
            /\ gesture.kind = "drag"
            /\ gesture.box # 0
            /\ GestureMove(d))
           => /\ OffsetBounds(overlays'[gesture.box]).left =
                   QInt(gesture.startLeft + d[1])
              /\ OffsetBounds(overlays'[gesture.box]).top =
                   QInt(gesture.startTop + d[2])
              /\ overlays' = [overlays EXCEPT
                                ![gesture.box].left = overlays'[gesture.box].left,
                                ![gesture.box].top = overlays'[gesture.box].top]
              /\ gesture' = gesture
      /\ \A target \in 0..(2 * MaxLoads), offset \in PointerOffsets :
           (/\ gesture = NULL
            /\ currentlyEditing # NULL
            /\ PreviewMouseMove(target, offset))
           => overlays' = overlays
    ]_vars

\* A rectangle is being dragged and the last move has put it thirty pixels
\* to the left of and ten below its position at pointer-down.
Dragged ==
  /\ gesture # NULL
  /\ gesture.kind = "drag"
  /\ gesture.box # 0
  /\ sessionBase.moved = "drag"
  /\ OffsetBounds(overlays[gesture.box]).left = QInt(gesture.startLeft - 30)
  /\ OffsetBounds(overlays[gesture.box]).top = QInt(gesture.startTop + 10)

\* C29: for the displacement (dx, dy) of the pointer since pointer-down, a
\* handle containing e sets width = startWidth + dx and leaves left as it
\* was; a handle containing w sets width = startWidth - dx and
\* left = startLeft + dx, so left + width is unchanged; s and n do the same
\* with the height and the top; an edge handle leaves the other axis
\* untouched.
ResizeKeepsOppositeEdge ==
  [][ \A d \in PointerDeltas :
        (/\ gesture # NULL
         /\ gesture.kind = "resize"
         /\ gesture.box # 0
         /\ GestureMove(d))
        => LET old == overlays[gesture.box]
               new == overlays'[gesture.box]
               e == HandleIncludes(gesture.handle, "e")
               w == HandleIncludes(gesture.handle, "w")
               s == HandleIncludes(gesture.handle, "s")
               n == HandleIncludes(gesture.handle, "n")
           IN  /\ e => /\ new.width = QInt(gesture.startWidth + d[1])
                       /\ new.left = old.left
               /\ w => /\ new.width = QInt(gesture.startWidth - d[1])
                       /\ new.left = QInt(gesture.startLeft + d[1])
                       /\ QAdd(new.left, new.width) =
                            QInt(gesture.startLeft + gesture.startWidth)
               /\ s => /\ new.height = QInt(gesture.startHeight + d[2])
                       /\ new.top = old.top
               /\ n => /\ new.height = QInt(gesture.startHeight - d[2])
                       /\ new.top = QInt(gesture.startTop + d[2])
                       /\ QAdd(new.top, new.height) =
                            QInt(gesture.startTop + gesture.startHeight)
               /\ ~(e \/ w) => new.width = old.width /\ new.left = old.left
               /\ ~(s \/ n) => new.height = old.height /\ new.top = old.top
    ]_vars

\* C30: a pointer-move that arrives while the throttle flag is set changes
\* neither the overlays nor the hover index nor anything else the hit test
\* writes, and sets no timer; the release of the flag clears the flag and
\* changes nothing else; the hover index changes only in the handling of a
\* pointer-move that arrived with the flag clear.
ThrottledMovesDropped ==
  [][ /\ \A target \in 0..1, offset \in PointerOffsets :
           (isThrottled /\ TimedMouseMove(target, offset))
           => /\ UNCHANGED <<overlays, lastHoveredElementIndex, isThrottled,
                             extractedData, timers>>
              /\ clock'.passes = clock.passes
              /\ clock'.due = clock.due
      /\ TimedRelease
           => /\ UNCHANGED <<overlays, lastHoveredElementIndex,
                             extractedData>>
              /\ ~isThrottled'
      /\ lastHoveredElementIndex' # lastHoveredElementIndex
           => /\ ~isThrottled
              /\ clock'.passes = clock.passes + 1
    ]_vars

\* Of two pointer-moves less than the interval apart the first has been
\* processed and has resolved an element, the second has been dropped, and
\* the flag has been released since.
DroppedThenReleased ==
  /\ clock.on
  /\ clock.events = 2
  /\ clock.passes = 1
  /\ clock.fast
  /\ clock.due = << >>
  /\ ~isThrottled
  /\ lastHoveredElementIndex # -1
  /\ overlays # << >>

---------------------------------------------------------------------------
(* Properties of ownership, redrawing and the throttle flag *)

\* C31: while an edit session is open on index i, the list has been neither
\* replaced nor cleared since the session was entered, index i denotes an
\* element of the list, and the snapshot of the session is the value that
\* element had when the session was entered.
SessionOwnsList ==
  currentlyEditing # NULL =>
    /\ At(extractedData, currentlyEditing.index) # NULL
    /\ sessionBase # NoSession
    /\ sessionBase.clean
    /\ currentlyEditing.originalElement =
         At(sessionBase.list, currentlyEditing.index)

\* C32: when several extraction requests have been issued and all have
\* completed, the list is the outcome of the request issued last, in
\* whatever order the answers arrive: the answer to the one request still
\* in flight, issued before a request that has completed already, leaves
\* the list and the result view as they are.
LastRequestWins ==
  [][ (/\ Len(requests) = 1
       /\ requests[1].overtaken
       /\ ResponseOvertakes(1))
      => /\ extractedData' = extractedData
         /\ markdownItems' = markdownItems
    ]_vars

\* C33: outside edit mode, whatever edit sessions there have been, a click
\* on the result-list header of element i draws the rectangles a click on
\* element i in the JSON view draws: those of the element stored at index
\* i of the list.
HeaderDrawsCurrentEntry ==
  currentlyEditing = NULL =>
    \A index \in 0..2 :
      (/\ index + 1 \in DOMAIN markdownItems
       /\ At(extractedData, index) # NULL)
      => /\ HeaderClicked(Cur, index).overlays =
              JsonPointerEvent(Cur, index, FALSE).overlays
         /\ HeaderClicked(Cur, index).overlays =
              DrawBoundingBox(Cur, At(extractedData, index),
                              FALSE, FALSE).overlays

\* The pointer positions (event.offsetX, event.offsetY) on the page surface.
SurfacePoints == {<<x, y>> : x \in 0..viewport.width, y \in 0..viewport.height}

\* Whether a pointer position lies strictly inside the margin the coordinate
\* system leaves around the scaled content.
InMargin(cs, offset) ==
  \/ QLt(QInt(offset[1]), cs.coords.offsetX)
  \/ QGt(QInt(offset[1]), QSub(cs.display.width, cs.coords.offsetX))
  \/ QLt(QInt(offset[2]), cs.coords.offsetY)
  \/ QGt(QInt(offset[2]), QSub(cs.display.height, cs.coords.offsetY))

\* Lists whose boxes lie within [0, 1]: the answers of the service, and an
\* element that covers its whole page.
UnitLists ==
  Responses \cup
  { << [type |-> "figure", page |-> 1,
        bounding_box |-> Box(0, 0, 10, 10), line_boxes |-> << >>] >> }

\* C34: for every coordinate system resolved from positive display and
\* content dimensions, offsetX >= 0, offsetY >= 0, at most one of them is
\* non-zero, contentWidth * scale + 2 * offsetX = displayWidth and
\* contentHeight * scale + 2 * offsetY = displayHeight; a pointer strictly
\* inside the margin maps to a normalized coordinate outside [0, 1] and
\* hits no element whose boxes lie within [0, 1].
ScaledContentFits ==
  geo.stage \in {"pixels", "back"} =>
    LET cs == geo.coordSystem
        c == cs.coords
    IN  /\ QGe(c.offsetX, QInt(0))
        /\ QGe(c.offsetY, QInt(0))
        /\ (c.offsetX = QInt(0) \/ c.offsetY = QInt(0))
        /\ QAdd(QMul(cs.page.width, c.scale), QMul(QInt(2), c.offsetX))
             = cs.display.width
        /\ QAdd(QMul(cs.page.height, c.scale), QMul(QInt(2), c.offsetY))
             = cs.display.height
        /\ \A offset \in SurfacePoints :
             InMargin(cs, offset) =>
               LET p == NormalizedPointer(Cur, 1, offset)
               IN  /\ \/ QLt(p.x, QInt(0)) \/ QGt(p.x, QInt(1))
                      \/ QLt(p.y, QInt(0)) \/ QGt(p.y, QInt(1))
                   /\ \A list \in UnitLists :
                        FoundElementIndex(list, 1, p.x, p.y) = -1

\* The coordinate system of a letterboxed page has been resolved: a pointer
\* in the margin above the content maps above the page, and the pointer
\* just below the margin hits the element that covers the page.
MarginResolved ==
  /\ geo.stage = "pixels"
  /\ QGt(geo.coordSystem.coords.offsetY, QInt(0))
  /\ geo.coordSystem.coords.offsetX = QInt(0)
  /\ InMargin(geo.coordSystem, <<20, 4>>)
  /\ QLt(NormalizedPointer(Cur, 1, <<20, 4>>).y, QInt(0))
  /\ ~InMargin(geo.coordSystem, <<20, 10>>)
  /\ \E list \in UnitLists :
       FoundElementIndex(list, 1, NormalizedPointer(Cur, 1, <<20, 10>>).x,
                         NormalizedPointer(Cur, 1, <<20, 10>>).y) = 0

\* C35: entering edit mode on element i and saving without any drag or
\* resize gesture leaves the whole list deep-equal to its value before the
\* session.
UntouchedSaveIsIdentity ==
  (SessionClosedBy("save") /\ sessionBase.moved = "no")
    => extractedData = sessionBase.list

\* C36: the throttle flag is set only by a pointer-move that finds the flag
\* clear, the list non-empty and no edit session open; each setting
\* schedules one release timer, so that at most one timer is pending and
\* the flag is set exactly while one is; a flag that is set is eventually
\* cleared, and a pointer-move that finds it clear (the list non-empty and
\* no edit session open) is processed.
ThrottleNeverStuck ==
  /\ [](timers \in {0, 1} /\ (isThrottled <=> timers = 1))
  /\ [][ (isThrottled' /\ ~isThrottled)
           => /\ ~HoverSuppressed(Cur)
              /\ timers' = timers + 1
              /\ \E target \in 0..(2 * MaxLoads), offset \in PointerOffsets :
                   PreviewMouseMove(target, offset)
       ]_vars
  /\ [][ (/\ ~HoverSuppressed(Cur)
          /\ \E target \in 0..(2 * MaxLoads), offset \in PointerOffsets :
               PreviewMouseMove(target, offset))
           => isThrottled' /\ timers' = 1
       ]_vars
  /\ (isThrottled ~> ~isThrottled)

\* A pointer-move has been processed and has resolved an element, and the
\* flag it set has been released since.
ThrottleReleased ==
  /\ ~isThrottled
  /\ timers = 0
  /\ clock = NoClock
  /\ lastHoveredElementIndex # -1
  /\ overlays # << >>
  /\ currentlyEditing = NULL

===========================================================================
